---- MODULE Spec2Model ----
(***************************************************************************)
(* A model of the pyjopa bytecode back end: the constant pool, the         *)
(* bytecode builder, the expression and statement compiler, the class-file *)
(* writer and reader, overload resolution and the command-line driver.     *)
(* Each component has its own specification over the shared variables.     *)
(***************************************************************************)
EXTENDS Integers, Sequences, FiniteSets, TLC

VARIABLES
    cp,        \* the ConstantPool under construction
    cp_last,   \* observation of the last constant-pool operation
    cp_out,    \* outcome of ConstantPool.write: "none", "written" or "struct.error"
    bb,        \* a BytecodeBuilder driven through its public methods
    bb_out,    \* outcome of BytecodeBuilder.build: status and the CodeAttribute
    res,       \* method tables that overload resolution searches
    res_last,  \* observation of the last _find_method call
    gen,       \* compiler state while the statements of a method are compiled
    gen_last,  \* observation of the last top-level compile_expression
    gen_out,   \* outcome of compile_method: status and the CodeAttribute
    drv,       \* the command-line driver: its status, the files it has written
    drv_last,  \* observation of the last call of CodeGenerator.compile
    gp,        \* a CodeGenerator in the middle of compile: its fields, the calls
               \* of compile_class in progress, the class cache
    srt,       \* the driver ordering its input files: Kahn's algorithm, then the
               \* files compiled so far
    fl,        \* a method body with loops, switches and breaks being compiled
    tr,        \* a try statement being compiled
    cond        \* a comparison being compiled as the condition of a statement

vars == <<cp, cp_last, cp_out, bb, bb_out, res, res_last, gen, gen_last, gen_out, drv,
          drv_last, gp, srt, fl, tr, cond>>

\* The variables of the components that are modelled step by step.
others == <<gp, srt, fl, tr, cond>>

\* The variables that the behaviours of one component leave alone.
NotCp == <<bb, bb_out, res, res_last, gen, gen_last, gen_out, drv, drv_last, others>>
NotBb == <<cp, cp_last, cp_out, res, res_last, gen, gen_last, gen_out, drv, drv_last, others>>
NotRes == <<cp, cp_last, cp_out, bb, bb_out, gen, gen_last, gen_out, drv, drv_last, others>>
NotGen == <<cp, cp_last, cp_out, bb, bb_out, res, res_last, drv, drv_last, others>>
NotDrv == <<cp, cp_last, cp_out, bb, bb_out, res, res_last, gen, gen_last, gen_out, others>>
NotPass == <<cp, cp_last, cp_out, bb, bb_out, res, res_last, gen, gen_last, gen_out, drv,
             drv_last, srt, fl, tr, cond>>
NotSort == <<cp, cp_last, cp_out, bb, bb_out, res, res_last, gen, gen_last, gen_out, drv,
             drv_last, gp, fl, tr, cond>>
NotFlow == <<cp, cp_last, cp_out, bb, bb_out, res, res_last, gen, gen_last, gen_out, drv,
             drv_last, gp, srt, tr, cond>>
NotTry == <<cp, cp_last, cp_out, bb, bb_out, res, res_last, gen, gen_last, gen_out, drv,
            drv_last, gp, srt, fl, cond>>
NotCond == <<cp, cp_last, cp_out, bb, bb_out, res, res_last, gen, gen_last, gen_out, drv,
             drv_last, gp, srt, fl, tr>>

\* ------------------------------------------------------------------ bounds
MaxTail == 4       \* explicit pool entries added during one behaviour
NearLimit == 3     \* how far below the u2 limit a pre-filled pool starts
MaxCode == 2       \* instructions emitted through the raw builder interface
MaxHandlers == 1   \* exception handlers registered through the raw interface
MaxOverloads == 3  \* overloads of one method name per class
MaxStmts == 2      \* statements in the body of the compiled method
MaxFiles == 2      \* source files compiled by one invocation of the driver
MaxSorted == 3     \* source files on a command line whose order is computed
MaxMembers == 3    \* fields, methods and annotations of a serialized class file
MaxThrows == 2     \* exceptions thrown while the code of one try statement runs
MaxMethods == 2    \* methods declared in the body of a class whose bridges are generated
MaxNested == 2     \* nested types in the body of a generic class
MaxNest == 3       \* loops and switches open around a statement
MaxFlow == 5       \* loop heads, switch heads, cases and breaks of a method body

\* --------------------------------------------------------- program constants
U2Max == 65535     \* largest value struct.pack(">H", ...) accepts

TagUtf8 == 1
TagInteger == 3
TagFloat == 4
TagLong == 5
TagDouble == 6
TagClass == 7
TagString == 8
TagFieldref == 9
TagMethodref == 10
TagInterfaceMethodref == 11
TagNameAndType == 12

\* ClassFileVersion: the major versions
JAVA_6 == 50
JAVA_8 == 52

\* ------------------------------------------------------------ ConstantPool
\* A pool entry is the tuple the code appends, as a record of uniform shape:
\* (tag, text) for UTF8, (tag, number) for the numeric kinds, (tag, index) or
\* (tag, index, index) for the symbolic kinds.  Hole is the None that follows
\* a Long or a Double.
Entry(tag, s, a, b) == [tag |-> tag, s |-> s, a |-> a, b |-> b]
Hole == Entry(0, "", 0, 0)

\* The pool is the list self._entries without its leading None: a block of
\* cp.base distinct Integer constants 1..cp.base (kept as a count), followed by
\* the entries cp.tail.  cp.cache is the dict self._cache for the tail.
BaseEntry(i) == Entry(TagInteger, "", i, 0)

EntryAt(pool, i) ==
    IF i <= pool.base THEN BaseEntry(i) ELSE pool.tail[i - pool.base]

\* len(self._entries)
PoolLen(pool) == 1 + pool.base + Len(pool.tail)

InBase(pool, e) == e.tag = TagInteger /\ e.a \in 1 .. pool.base

\* key in self._cache
CacheHas(pool, e) == InBase(pool, e) \/ \E c \in pool.cache : c.key = e

\* self._cache[key]
CacheGet(pool, e) ==
    IF InBase(pool, e) THEN e.a
    ELSE (CHOOSE c \in pool.cache : c.key = e).idx

EmptyPool == [base |-> 0, tail |-> <<>>, cache |-> {}]

\* ConstantPool._add: the pool after the call and the index returned.
\* A mutated variant, which forgets to consult the cache, precedes it.
AddAlwaysAppend(pool, e) ==
    LET idx == PoolLen(pool)
        grown == Append(pool.tail, e)
    IN [pool |-> [pool EXCEPT !.tail = IF e.tag \in {TagLong, TagDouble}
                                        THEN Append(grown, Hole) ELSE grown,
                              !.cache = {c \in pool.cache : c.key # e}
                                          \cup {[key |-> e, idx |-> idx]}],
        idx |-> idx]

Add(pool, e) ==
    IF CacheHas(pool, e)
    THEN [pool |-> pool, idx |-> CacheGet(pool, e)]
    ELSE LET idx == PoolLen(pool)
             grown == Append(pool.tail, e)
         IN [pool |-> [pool EXCEPT !.tail = IF e.tag \in {TagLong, TagDouble}
                                             THEN Append(grown, Hole) ELSE grown,
                                   !.cache = pool.cache \cup {[key |-> e, idx |-> idx]}],
             idx |-> idx]

add_utf8(pool, value) == Add(pool, Entry(TagUtf8, value, 0, 0))

\* "return self._add((tag, idx))" for the index idx that u returned
AddIndexOf(tag, u) == Add(u.pool, Entry(tag, "", u.idx, 0))

add_class(pool, internal_name) == AddIndexOf(TagClass, add_utf8(pool, internal_name))

add_string(pool, value) == AddIndexOf(TagString, add_utf8(pool, value))

\* "return self._add((tag, first_idx, second_idx))"
AddIndicesOf(tag, first, second) ==
    Add(second.pool, Entry(tag, "", first.idx, second.idx))

\* add_name_and_type after name_idx = self.add_utf8(name)
AddDescriptor(n, descriptor) ==
    AddIndicesOf(TagNameAndType, n, add_utf8(n.pool, descriptor))

add_name_and_type(pool, name, descriptor) == AddDescriptor(add_utf8(pool, name), descriptor)

\* add_fieldref, add_methodref, add_interface_methodref after
\* class_idx = self.add_class(class_name)
AddMember(tag, c, member_name, descriptor) ==
    AddIndicesOf(tag, c, add_name_and_type(c.pool, member_name, descriptor))

AddRef(pool, tag, class_name, member_name, descriptor) ==
    AddMember(tag, add_class(pool, class_name), member_name, descriptor)

\* ConstantPool.write, first statement: struct.pack(">H", len(self._entries))
\* raises struct.error when the count does not fit an unsigned 16-bit field.
CountFits(pool) == PoolLen(pool) <= U2Max

\* --------------------------------------------------------- BytecodeBuilder
\* One emitted instruction: its mnemonic, byte offset and length, the label
\* it branches to, a numeric operand, the number of stack slots the JVM pops
\* and pushes when executing it, and the (match, label) pairs of a switch.
Ins(op, at, len, lbl, n, pops, pushes, cases) ==
    [op |-> op, at |-> at, len |-> len, lbl |-> lbl, n |-> n,
     pops |-> pops, pushes |-> pushes, cases |-> cases]

\* BytecodeBuilder.__init__; code is kept as instructions, size is len(code).
NewBuilder(pool) ==
    [cp |-> pool, code |-> <<>>, size |-> 0, max_stack |-> 0, max_locals |-> 0,
     current_stack |-> 0, labels |-> {}, forward_refs |-> <<>>,
     exception_handlers |-> <<>>]

Max(a, b) == IF a >= b THEN a ELSE b

_push(b, count) ==
    [b EXCEPT !.current_stack = @ + count,
              !.max_stack = Max(@, b.current_stack + count)]

_pop(b, count) == [b EXCEPT !.current_stack = @ - count]

\* self._labels[name] = self.position()
label(b, name) ==
    [b EXCEPT !.labels = {l \in @ : l.name # name}
                            \cup {[name |-> name, pos |-> b.size]}]

HasLabel(b, name) == \E l \in b.labels : l.name = name
LabelPos(b, name) == (CHOOSE l \in b.labels : l.name = name).pos

\* self._emit(...) and the code.extend(...) calls that follow it
_emit(b, op, len, lbl, n, pops, pushes, cases) ==
    [b EXCEPT !.code = Append(@, Ins(op, b.size, len, lbl, n, pops, pushes, cases)),
              !.size = @ + len]

\* An instruction without operands whose tracked effect is the JVM's.
Plain(b, op, pops, pushes) ==
    _push(_pop(_emit(b, op, 1, "", 0, pops, pushes, <<>>), pops), pushes)

iconst(b, value) ==
    LET r == Add(b.cp, Entry(TagInteger, "", value, 0))
        e == IF value = -1 \/ (0 <= value /\ value <= 5)
               THEN _emit(b, "iconst", 1, "", value, 0, 1, <<>>)
             ELSE IF -128 <= value /\ value <= 127
               THEN _emit(b, "bipush", 2, "", value, 0, 1, <<>>)
             ELSE IF -32768 <= value /\ value <= 32767
               THEN _emit(b, "sipush", 3, "", value, 0, 1, <<>>)
             ELSE IF r.idx <= 255
               THEN _emit([b EXCEPT !.cp = r.pool], "ldc", 2, "", r.idx, 0, 1, <<>>)
             ELSE _emit([b EXCEPT !.cp = r.pool], "ldc_w", 3, "", r.idx, 0, 1, <<>>)
    IN _push(e, 1)

lconst(b, value) ==
    LET r == Add(b.cp, Entry(TagLong, "", value, 0))
        e == IF value \in {0, 1}
               THEN _emit(b, "lconst", 1, "", value, 0, 2, <<>>)
             ELSE _emit([b EXCEPT !.cp = r.pool], "ldc2_w", 3, "", r.idx, 0, 2, <<>>)
    IN _push(e, 2)

\* iload, lload, fload, dload, aload: width is the slot count of the type
Load(b, op, slot, width) ==
    _push(_emit(b, op, IF slot <= 3 THEN 1 ELSE 2, "", slot, 0, width, <<>>), width)

\* istore, lstore, fstore, dstore, astore
Store(b, op, slot, width) ==
    _pop(_emit(b, op, IF slot <= 3 THEN 1 ELSE 2, "", slot, width, 0, <<>>), width)

\* ifeq .. ifle, if_icmpXX, if_acmpXX, ifnull, ifnonnull, goto: a two-byte
\* forward reference recorded at the byte after the opcode.
Branch(b, op, lbl, pops) ==
    LET e == _emit(b, op, 3, lbl, 0, pops, 0, <<>>)
    IN _pop([e EXCEPT !.forward_refs =
                 Append(@, [label |-> lbl, offset |-> b.size + 1, size |-> 2,
                            instr_start |-> b.size])],
            pops)

\* JType.size: long and double take two slots.
TypeSize(t) == IF t \in {"J", "D"} THEN 2 ELSE 1

\* Slots of a parameter list; slots of a result ("V" is void).
RECURSIVE ArgSlots(_)
ArgSlots(params) ==
    IF params = <<>> THEN 0 ELSE TypeSize(Head(params)) + ArgSlots(Tail(params))

RetSlots(t) == IF t = "V" THEN 0 ELSE TypeSize(t)

\* JType.descriptor: a class type is "L" + internal name + ";"
TypeDescriptor(t) ==
    IF t \in {"Z", "B", "C", "S", "I", "J", "F", "D", "V", "[I", "[J"} THEN t
    ELSE "L" \o t \o ";"

\* MethodType.descriptor: "(" + parameters + ")" + result
RECURSIVE JoinDescriptors(_)
JoinDescriptors(params) ==
    IF params = <<>> THEN ""
    ELSE TypeDescriptor(Head(params)) \o JoinDescriptors(Tail(params))

Descriptor(sig) == "(" \o JoinDescriptors(sig.params) \o ")" \o TypeDescriptor(sig.ret)

\* An instruction whose operand is the pool index r.idx just added
EmitRef(b, r, op, len, pops, pushes) ==
    _emit([b EXCEPT !.cp = r.pool], op, len, "", r.idx, pops, pushes, <<>>)

\* invokevirtual, invokespecial, invokestatic, invokeinterface.  The JVM pops
\* the receiver (recv = 1, or 0 for a static call) and the parameter slots of
\* the descriptor; the builder pops tracked_pops, computed from arg_size.
Invoke(b, op, tag, len, owner, name, sig, recv, tracked_pops, ret_size) ==
    _push(_pop(EmitRef(b, AddRef(b.cp, tag, owner, name, Descriptor(sig)), op, len,
                       recv + ArgSlots(sig.params), RetSlots(sig.ret)),
               tracked_pops),
          ret_size)

invokevirtual(b, owner, name, sig, arg_size, ret_size) ==
    Invoke(b, "invokevirtual", TagMethodref, 3, owner, name, sig, 1, 1 + arg_size, ret_size)

invokespecial(b, owner, name, sig, arg_size, ret_size) ==
    Invoke(b, "invokespecial", TagMethodref, 3, owner, name, sig, 1, 1 + arg_size, ret_size)

invokestatic(b, owner, name, sig, arg_size, ret_size) ==
    Invoke(b, "invokestatic", TagMethodref, 3, owner, name, sig, 0, arg_size, ret_size)

invokeinterface(b, owner, name, sig, arg_size, ret_size) ==
    Invoke(b, "invokeinterface", TagInterfaceMethodref, 5, owner, name, sig, 1, arg_size, ret_size)

\* getstatic, putstatic, getfield, putfield: the JVM moves the slots of the
\* field's descriptor; the builder tracks the size argument (default 1).
FieldOp(b, op, owner, name, desc, size) ==
    LET recv == IF op \in {"getfield", "putfield"} THEN 1 ELSE 0
        get == op \in {"getfield", "getstatic"}
        e == EmitRef(b, AddRef(b.cp, TagFieldref, owner, name, desc), op, 3,
                     recv + (IF get THEN 0 ELSE TypeSize(desc)),
                     IF get THEN TypeSize(desc) ELSE 0)
    IN IF get THEN _push(_pop(e, recv), size) ELSE _pop(e, recv + size)

\* sorted(cases, key=lambda x: x[0]): stable insertion by match value
RECURSIVE InsertCase(_, _)
InsertCase(sorted, c) ==
    IF sorted = <<>> THEN <<c>>
    ELSE IF c.match < Head(sorted).match THEN <<c>> \o sorted
    ELSE <<Head(sorted)>> \o InsertCase(Tail(sorted), c)

RECURSIVE SortCases(_)
SortCases(cases) ==
    IF cases = <<>> THEN <<>>
    ELSE InsertCase(SortCases(SubSeq(cases, 1, Len(cases) - 1)), cases[Len(cases)])

lookupswitch_pad_to_four(b, default_label, cases) ==
    LET base == b.size + 1
        padding == 4 - (base % 4)
        sorted_cases == SortCases(cases)
        ref(lbl, off) == [label |-> lbl, offset |-> off, size |-> 4,
                          instr_start |-> base - 1]
        refs == <<ref(default_label, base + padding)>> \o
                [i \in 1 .. Len(sorted_cases) |->
                    ref(sorted_cases[i].label, base + padding + 8 + 8 * (i - 1) + 4)]
        e == _emit(b, "lookupswitch", 1 + padding + 8 + 8 * Len(cases),
                   default_label, padding, 1, 0, sorted_cases)
    IN _pop([e EXCEPT !.forward_refs = @ \o refs], 1)

lookupswitch(b, default_label, cases) ==
    LET base == b.size + 1
        padding == (4 - (base % 4)) % 4
        sorted_cases == SortCases(cases)
        ref(lbl, off) == [label |-> lbl, offset |-> off, size |-> 4,
                          instr_start |-> base - 1]
        refs == <<ref(default_label, base + padding)>> \o
                [i \in 1 .. Len(sorted_cases) |->
                    ref(sorted_cases[i].label, base + padding + 8 + 8 * (i - 1) + 4)]
        e == _emit(b, "lookupswitch", 1 + padding + 8 + 8 * Len(cases),
                   default_label, padding, 1, 0, sorted_cases)
    IN _pop([e EXCEPT !.forward_refs = @ \o refs], 1)

add_exception_handler_first(b, start_label, end_label, handler_label, catch_type_idx) ==
    [b EXCEPT !.exception_handlers =
        <<[start |-> start_label, end |-> end_label,
           handler |-> handler_label, catch_type |-> catch_type_idx]>> \o @]

add_exception_handler(b, start_label, end_label, handler_label, catch_type_idx) ==
    [b EXCEPT !.exception_handlers =
        Append(@, [start |-> start_label, end |-> end_label,
                   handler |-> handler_label, catch_type |-> catch_type_idx])]

\* resolve_labels: patches every forward reference with target - instr_start,
\* and raises ValueError at the first reference to an undefined label.  A
\* mutated variant, which skips such references instead, precedes it.
resolve_labels_skipping(b) ==
    [ok |-> TRUE,
     patches |-> {[offset |-> b.forward_refs[i].offset, size |-> b.forward_refs[i].size,
                   relative |-> LabelPos(b, b.forward_refs[i].label)
                                  - b.forward_refs[i].instr_start] :
                  i \in {j \in 1 .. Len(b.forward_refs) : HasLabel(b, b.forward_refs[j].label)}}]

resolve_labels(b) ==
    [ok |-> \A i \in 1 .. Len(b.forward_refs) : HasLabel(b, b.forward_refs[i].label),
     patches |-> {[offset |-> b.forward_refs[i].offset, size |-> b.forward_refs[i].size,
                   relative |-> LabelPos(b, b.forward_refs[i].label)
                                  - b.forward_refs[i].instr_start] :
                  i \in {j \in 1 .. Len(b.forward_refs) : HasLabel(b, b.forward_refs[j].label)}}]

HandlerDefined(b, h) ==
    HasLabel(b, h.start) /\ HasLabel(b, h.end) /\ HasLabel(b, h.handler)

\* build: the outcome and, when it returns, the CodeAttribute it returns.
build(b) ==
    LET r == resolve_labels(b)
        hs == b.exception_handlers
    IN IF ~r.ok \/ \E i \in 1 .. Len(hs) : ~HandlerDefined(b, hs[i])
       THEN [status |-> "ValueError", attr |-> <<>>]
       ELSE [status |-> "built",
             attr |-> <<[max_stack |-> b.max_stack, max_locals |-> b.max_locals,
                         code |-> b.code, patches |-> r.patches,
                         exception_table |->
                            [i \in 1 .. Len(hs) |->
                               [start_pc |-> LabelPos(b, hs[i].start),
                                end_pc |-> LabelPos(b, hs[i].end),
                                handler_pc |-> LabelPos(b, hs[i].handler),
                                catch_type |-> hs[i].catch_type]]]>>]

\* ------------------------------------------------------ overload resolution
\* A primitive or array type is written as its descriptor, a class type as
\* its internal name.  A method is a record of its name, parameter types,
\* result type and flags; a method table is a list of them in declaration (or
\* class-file) order.
Object == "java/lang/Object"

IsPrimitive(t) == t \in {"Z", "B", "C", "S", "I", "J", "F", "D", "V"}
IsArray(t) == t \in {"[I", "[J"}
IsClass(t) == ~IsPrimitive(t) /\ ~IsArray(t)

\* ArrayJType.element_type
ElementType(t) == IF t = "[J" THEN "J" ELSE "I"

\* list.index(x) for a list without repetitions (0-based)
IndexOf(list, x) == (CHOOSE i \in 1 .. Len(list) : list[i] = x) - 1

InList(list, x) == \E i \in 1 .. Len(list) : list[i] = x

\* _lookup_class: the classpath class of that internal name, if any
_lookup_class(g, name) == {c \in g.classpath : c.name = name}

\* _is_subclass, by walking super_class links (steps bounds the walk, which
\* the code bounds with its visited set)
RECURSIVE IsSubclassFrom(_, _, _, _)
IsSubclassFrom(g, current, superclass_name, steps) ==
    LET next_super ==
          IF current = g.class_name THEN g.super_class_name
          ELSE IF _lookup_class(g, current) # {}
               THEN (CHOOSE c \in _lookup_class(g, current) : TRUE).super_class
               ELSE ""
    IN IF current = superclass_name THEN TRUE
       ELSE IF next_super = "" \/ steps = 0 THEN FALSE
       ELSE IF next_super = superclass_name THEN TRUE
       ELSE IsSubclassFrom(g, next_super, superclass_name, steps - 1)

_is_subclass(g, sub, super) == IsSubclassFrom(g, sub, super, Cardinality(g.classpath) + 1)

_type_assignable(g, from_type, to_type) ==
    LET widening_order == <<"B", "S", "C", "I", "J">>
    IN \/ from_type = to_type
       \/ /\ InList(widening_order, from_type) /\ InList(widening_order, to_type)
          /\ \/ from_type \in {"B", "S", "C"} /\ to_type = "I"
             \/ IndexOf(widening_order, from_type) <= IndexOf(widening_order, to_type)
       \/ from_type = "F" /\ to_type = "D"
       \/ from_type \in {"B", "S", "C", "I"} /\ to_type \in {"F", "D"}
       \/ from_type = "J" /\ to_type \in {"F", "D"}
       \/ to_type = Object /\ (IsClass(from_type) \/ IsArray(from_type))
       \/ /\ IsClass(from_type) /\ IsClass(to_type)
          /\ _is_subclass(g, from_type, to_type)

\* zip(arg_types, param_types) stops at the shorter list
_args_compatible(g, arg_types, param_types) ==
    \A i \in 1 .. Len(arg_types) :
        i <= Len(param_types) => _type_assignable(g, arg_types[i], param_types[i])

\* _method_more_specific: TRUE at the first position at which p1 is more
\* specific than p2.
_method_more_specific(m1, m2) ==
    LET widening == <<"B", "S", "C", "I", "J", "F", "D">>
    IN \E i \in 1 .. Len(m1.params) :
         /\ i <= Len(m2.params)
         /\ m1.params[i] # m2.params[i]
         /\ \/ /\ m2.params[i] = Object
               /\ IsPrimitive(m1.params[i]) \/ IsClass(m1.params[i])
            \/ /\ InList(widening, m1.params[i]) /\ InList(widening, m2.params[i])
               /\ IndexOf(widening, m1.params[i]) < IndexOf(widening, m2.params[i])

\* _most_specific_method: the first candidate, replaced by each later one
\* that _method_more_specific prefers to the best so far.
RECURSIVE BestFrom(_, _)
BestFrom(best, rest) ==
    IF rest = <<>> THEN best
    ELSE BestFrom(IF _method_more_specific(Head(rest), best) THEN Head(rest) ELSE best,
                  Tail(rest))

_most_specific_method(candidates) == BestFrom(Head(candidates), Tail(candidates))

Resolved(owner, m, is_interface) ==
    [owner |-> owner, name |-> m.name, params |-> m.params, ret |-> m.ret,
     is_static |-> m.is_static, is_interface |-> is_interface,
     is_varargs |-> m.is_varargs]

\* The varargs test of the local loop: the regular parameters and the
\* trailing arguments (against the array's element type) are assignable.
VarargsMatch(g, m, arg_types) ==
    /\ m.is_varargs /\ m.params # <<>>
    /\ Len(arg_types) >= Len(m.params) - 1
    /\ \A i \in 1 .. (Len(m.params) - 1) : _type_assignable(g, arg_types[i], m.params[i])
    /\ IsArray(m.params[Len(m.params)])
    /\ \A i \in Len(m.params) .. Len(arg_types) :
          _type_assignable(g, arg_types[i], ElementType(m.params[Len(m.params)]))

\* The loop over self._local_methods[method_name]: the first overload, in
\* registration order, with as many parameters as there are arguments (or
\* matching as a varargs method).
RECURSIVE FirstLocal(_, _, _, _)
FirstLocal(g, methods, method_name, arg_types) ==
    IF methods = <<>> THEN <<>>
    ELSE LET m == Head(methods)
         IN IF m.name = method_name /\ Len(m.params) = Len(arg_types)
              THEN <<Resolved(g.class_name, m, FALSE)>>
            ELSE IF m.name = method_name /\ VarargsMatch(g, m, arg_types)
              THEN <<[Resolved(g.class_name, m, FALSE) EXCEPT !.is_varargs = TRUE]>>
            ELSE FirstLocal(g, Tail(methods), method_name, arg_types)

\* The "while current" loop: compatible methods of the class and of its
\* superclasses, in class-file order.
RECURSIVE Candidates(_, _, _, _, _, _)
Candidates(g, current, method_name, arg_types, is_interface, fuel) ==
    LET found == _lookup_class(g, current)
        cls == CHOOSE c \in found : TRUE
        here == SelectSeq(cls.methods,
                          LAMBDA m : /\ m.name = method_name
                                     /\ Len(m.params) = Len(arg_types)
                                     /\ _args_compatible(g, arg_types, m.params))
        mine == [i \in 1 .. Len(here) |->
                    [Resolved(cls.name, here[i], is_interface) EXCEPT !.is_varargs = FALSE]]
    IN IF found = {} \/ fuel = 0 THEN <<>>
       ELSE IF cls.super_class = "" THEN mine
       ELSE mine \o Candidates(g, cls.super_class, method_name, arg_types,
                               is_interface, fuel - 1)

RECURSIVE _find_method(_, _, _, _, _)
RECURSIVE FirstInterface(_, _, _, _, _)
FirstInterface(g, ifaces, method_name, arg_types, fuel) ==
    IF ifaces = <<>> THEN <<>>
    ELSE LET r == _find_method(g, Head(ifaces), method_name, arg_types, fuel)
         IN IF r # <<>> THEN r
            ELSE FirstInterface(g, Tail(ifaces), method_name, arg_types, fuel)

_find_method(g, class_name, method_name, arg_types, fuel) ==
    LET local == IF class_name = g.class_name
                 THEN FirstLocal(g, g.local_methods, method_name, arg_types)
                 ELSE <<>>
        inherited == IF class_name = g.class_name /\ g.super_class_name # ""
                        /\ g.super_class_name # g.class_name /\ fuel > 0
                     THEN _find_method(g, g.super_class_name, method_name, arg_types, fuel - 1)
                     ELSE <<>>
        found == _lookup_class(g, class_name)
        cls == CHOOSE c \in found : TRUE
        candidates == Candidates(g, class_name, method_name, arg_types,
                                 cls.is_interface, fuel)
    IN IF local # <<>> THEN local
       ELSE IF inherited # <<>> THEN inherited
       ELSE IF found = {} \/ fuel = 0 THEN <<>>
       ELSE IF candidates # <<>> THEN <<_most_specific_method(candidates)>>
       ELSE FirstInterface(g, cls.interfaces, method_name, arg_types, fuel - 1)

ResIdle ==
    /\ res = [class_name |-> "A", super_class_name |-> Object, local_methods |-> <<>>,
              classpath |-> {}, arity |-> 1]
    /\ res_last = [where |-> "none", arg_types |-> <<>>, table |-> <<>>, found |-> <<>>]

\* ------------------------------------------------------ expression compiler
\* An expression of the AST: k is the node class ("lit", "id", "bin",
\* "assign", "call", "ternary"), op the operator or literal kind, v a literal
\* value, name an identifier or method name, kids the sub-expressions.
Expr(k, op, v, name, kids) == [k |-> k, op |-> op, v |-> v, name |-> name, kids |-> kids]

\* The compiler's state while one method is compiled: the CodeGenerator
\* fields g (class name, local methods and fields, classpath) and
\* label_counter, and the MethodContext fields b (builder), locals, next_slot
\* and return_type.  type is the JType the last compile_expression returned;
\* error is the message of a raised CompileError ("" if none), after which
\* nothing more is emitted.
Raise(c, message) == [c EXCEPT !.error = message]

\* The builder after a call made through ctx.builder, and the type returned;
\* nothing is emitted once a CompileError has been raised.
Emit(c, b, t) == IF c.error # "" THEN c ELSE [c EXCEPT !.b = b, !.type = t]

\* builder.label(name)
Labelled(c, name) == Emit(c, label(c.b, name), c.type)

\* builder.goto(target) followed by builder.label(name)
GotoLabelled(c, target, name) ==
    Emit(c, label(Branch(c.b, "goto", target, 0), name), c.type)

\* new_label: the label that the next call returns
new_label(c, prefix) == prefix \o ToString(c.label_counter + 1)

Counted(c, n) == [c EXCEPT !.label_counter = @ + n]

HasLocal(c, name) == \E v \in c.locals : v.name = name
get_local(c, name) == CHOOSE v \in c.locals : v.name = name

\* MethodContext.add_local
add_local(c, name, jtype) ==
    [c EXCEPT !.locals = {v \in @ : v.name # name}
                           \cup {[name |-> name, type |-> jtype, slot |-> c.next_slot]},
              !.next_slot = @ + TypeSize(jtype),
              !.b = [@ EXCEPT !.max_locals = Max(@, c.next_slot + TypeSize(jtype))]]

\* The letter that starts the load, store and arithmetic mnemonics of a type
Prefix(t) ==
    IF t \in {"I", "Z", "B", "C", "S"} THEN "i"
    ELSE IF t = "J" THEN "l"
    ELSE IF t = "F" THEN "f"
    ELSE IF t = "D" THEN "d"
    ELSE "a"

load_local(var, b) == Load(b, Prefix(var.type) \o "load", var.slot, TypeSize(var.type))

store_local(var, b) == Store(b, Prefix(var.type) \o "store", var.slot, TypeSize(var.type))

\* _find_field, for a class whose superclass is not on the classpath: the
\* field of the class being compiled, if any
_find_field(c, name) == {f \in c.g.local_fields : f.name = name}

binary_numeric_promotion(left, right) ==
    IF left = "D" \/ right = "D" THEN "D"
    ELSE IF left = "F" \/ right = "F" THEN "F"
    ELSE IF left = "J" \/ right = "J" THEN "J"
    ELSE "I"

compile_literal(c, lit) ==
    IF lit.op \in {"int", "boolean"}
      THEN Emit(c, iconst(c.b, lit.v), IF lit.op = "int" THEN "I" ELSE "Z")
    ELSE IF lit.op = "long" THEN Emit(c, lconst(c.b, lit.v), "J")
    ELSE Raise(c, "Unknown literal kind")

RECURSIVE _estimate_expression_type(_, _)
_estimate_expression_type(c, e) ==
    IF e.k = "lit"
      THEN (IF e.op = "int" THEN "I" ELSE IF e.op = "long" THEN "J"
            ELSE IF e.op = "boolean" THEN "Z" ELSE Object)
    ELSE IF e.k = "id"
      THEN (IF HasLocal(c, e.name) THEN get_local(c, e.name).type
            ELSE IF _find_field(c, e.name) # {}
              THEN (CHOOSE f \in _find_field(c, e.name) : TRUE).jtype
            ELSE Object)
    ELSE IF e.k = "bin"
      THEN LET l == _estimate_expression_type(c, e.kids[1])
               r == _estimate_expression_type(c, e.kids[2])
           IN IF l = "J" \/ r = "J" THEN "J"
              ELSE IF l = "D" \/ r = "D" THEN "D"
              ELSE IF l = "F" \/ r = "F" THEN "F"
              ELSE "I"
    ELSE Object

Comparisons == {"==", "!=", "<", ">=", ">", "<="}

\* The if_icmpXX mnemonic of a comparison, and of its negation
IcmpOp(op) ==
    CASE op = "==" -> "if_icmpeq" [] op = "!=" -> "if_icmpne" [] op = "<" -> "if_icmplt"
      [] op = ">=" -> "if_icmpge" [] op = ">" -> "if_icmpgt" [] op = "<=" -> "if_icmple"

Inverted(op) ==
    CASE op = "==" -> "!=" [] op = "!=" -> "==" [] op = "<" -> ">="
      [] op = ">=" -> "<" [] op = ">" -> "<=" [] op = "<=" -> ">"

\* The mnemonic of an arithmetic instruction: iadd, lsub, fmul, ddiv, ...
ArithOp(t, op) ==
    Prefix(t) \o (CASE op = "+" -> "add" [] op = "-" -> "sub"
                    [] op = "*" -> "mul" [] op = "/" -> "div")

RECURSIVE compile_expression(_, _)
RECURSIVE compile_condition(_, _, _, _)

\* "for arg in expr.arguments: self.compile_expression(arg, ctx)"
RECURSIVE CompileAll(_, _)
CompileAll(c, exprs) ==
    IF exprs = <<>> THEN c
    ELSE CompileAll(compile_expression(c, Head(exprs)), Tail(exprs))

\* "left_type = self.compile_expression(expr.left, ctx)" and
\* "right_type = self.compile_expression(expr.right, ctx)": the type of the
\* left operand and the context after both.
RightOperand(l, right) == [left_type |-> l.type, c |-> compile_expression(l, right)]

Operands(c, e) == RightOperand(compile_expression(c, e.kids[1]), e.kids[2])

\* compile_binary after its operands: the instruction chosen by the promoted
\* type, or the materialised comparison.
BinaryOperation(e, o) ==
    LET result_type == binary_numeric_promotion(o.left_type, o.c.type)
        true_label == new_label(o.c, "true")
        end_label == new_label(Counted(o.c, 1), "end")
        branched == IF o.left_type = "I" /\ o.c.type = "I"
                    THEN Branch(o.c.b, IcmpOp(e.op), true_label, 2)
                    ELSE o.c.b
    IN IF e.op \in {"+", "-", "*", "/"}
         THEN Emit(o.c, Plain(o.c.b, ArithOp(result_type, e.op),
                              2 * TypeSize(result_type), TypeSize(result_type)),
                   result_type)
       ELSE IF e.op \in Comparisons
         THEN Emit(Counted(o.c, 2),
                   label(iconst(label(Branch(iconst(branched, 0), "goto", end_label, 0),
                                      true_label), 1), end_label),
                   "Z")
       ELSE IF o.c.error # "" THEN o.c
       ELSE Raise(o.c, "Unsupported binary operator")

\* compile_binary for operands that are not strings
compile_binary(c, e) == BinaryOperation(e, Operands(c, e))

\* compile_assignment after the value v has been compiled: dup and a store to
\* the local variable, or dup / dup_x1 and putstatic / putfield.
AssignValue(c, e, v) ==
    LET field == CHOOSE f \in _find_field(c, e.name) : TRUE
    IN IF HasLocal(c, e.name)
         THEN Emit(v, store_local(get_local(c, e.name), Plain(v.b, "dup", 1, 2)),
                   get_local(c, e.name).type)
       ELSE Emit(v, FieldOp(IF field.is_static THEN Plain(v.b, "dup", 1, 2)
                            ELSE Plain(v.b, "dup_x1", 2, 3),
                            IF field.is_static THEN "putstatic" ELSE "putfield",
                            c.g.class_name, field.name, TypeDescriptor(field.jtype), 1),
                 field.jtype)

\* builder.aload(0)
LoadThis(c) == Emit(c, Load(c.b, "aload", 0, 1), c.type)

\* compile_assignment with operator "=" and an Identifier target: a local
\* variable, else a field of the class being compiled (this is loaded before
\* the value of an instance field).
compile_assignment(c, e) ==
    IF ~HasLocal(c, e.name) /\ _find_field(c, e.name) = {}
      THEN Raise(c, "Undefined variable")
    ELSE AssignValue(c, e,
           compile_expression(IF ~HasLocal(c, e.name)
                                 /\ \E f \in _find_field(c, e.name) : ~f.is_static
                              THEN LoadThis(c) ELSE c,
                              e.kids[1]))

\* The invoke instruction of a resolved method, after the arguments.  The
\* receiver is counted into the arg_size passed for an instance method.
EmitInvoke(resolved, a, is_static_call, is_super_call) ==
    LET sig == [params |-> resolved.params, ret |-> resolved.ret]
        args_slots == ArgSlots(resolved.params)
        return_slots == IF resolved.ret = "V" THEN 0 ELSE TypeSize(resolved.ret)
    IN IF is_static_call \/ resolved.is_static
         THEN Emit(a, invokestatic(a.b, resolved.owner, resolved.name, sig,
                                   args_slots, return_slots), resolved.ret)
       ELSE IF resolved.is_interface
         THEN Emit(a, invokeinterface(a.b, resolved.owner, resolved.name, sig,
                                      args_slots + 1, return_slots), resolved.ret)
       ELSE IF is_super_call
         THEN Emit(a, invokespecial(a.b, resolved.owner, resolved.name, sig,
                                    args_slots + 1, return_slots), resolved.ret)
       ELSE Emit(a, invokevirtual(a.b, resolved.owner, resolved.name, sig,
                                  args_slots + 1, return_slots), resolved.ret)

\* The target of a call, held in e.op: none (""), super, a local variable or
\* else a class name, which makes the call a static call.  c is the context
\* after the receiver has been loaded, if it is loaded here.  The class names
\* used as targets are internal names already, but for Object.
CallTarget(c, e) ==
    IF e.op = ""
      THEN [c |-> c, type |-> c.g.class_name, is_static_call |-> FALSE,
            is_super_call |-> FALSE, needs_this_load |-> TRUE]
    ELSE IF e.op = "super"
      THEN [c |-> LoadThis(c), type |-> c.g.super_class_name, is_static_call |-> FALSE,
            is_super_call |-> TRUE, needs_this_load |-> FALSE]
    ELSE IF HasLocal(c, e.op)
      THEN [c |-> Emit(c, load_local(get_local(c, e.op), c.b), c.type),
            type |-> get_local(c, e.op).type, is_static_call |-> FALSE,
            is_super_call |-> FALSE, needs_this_load |-> FALSE]
    ELSE [c |-> c, type |-> IF e.op = "Object" THEN Object ELSE e.op,
          is_static_call |-> TRUE, is_super_call |-> FALSE, needs_this_load |-> FALSE]

\* After resolution: load this for an instance method called without a
\* target, compile the arguments.
InvokeResolved(t, e, found) ==
    IF ~IsClass(t.type) THEN Raise(t.c, "Cannot call method on type")
    ELSE IF found = <<>> THEN Raise(t.c, "Cannot resolve method")
    ELSE EmitInvoke(found[1],
                    CompileAll(IF t.needs_this_load /\ ~found[1].is_static
                               THEN LoadThis(t.c) ELSE t.c,
                               e.kids),
                    t.is_static_call, t.is_super_call)

\* _compile_general_method_call: resolve on the class of the target by the
\* estimated argument types.
_compile_general_method_call(c, e) ==
    InvokeResolved(CallTarget(c, e), e,
        _find_method(c.g, CallTarget(c, e).type, e.name,
                     [i \in 1 .. Len(e.kids) |-> _estimate_expression_type(c, e.kids[i])], 3))

\* compile_ternary after the else value: builder.label(end_label)
TernaryEnd(end_label, o) == Emit(o.c, label(o.c.b, end_label), o.left_type)

\* compile_ternary: the condition, the then value, goto end, the else value;
\* the type returned is the type of the then value.
compile_ternary(c, e) ==
    LET else_label == new_label(c, "else")
        end_label == new_label(Counted(c, 1), "end")
    IN TernaryEnd(end_label,
         RightOperand(
           GotoLabelled(compile_expression(compile_condition(Counted(c, 2), e.kids[1],
                                                             else_label, FALSE),
                                           e.kids[2]),
                        end_label, else_label),
           e.kids[3]))

\* compile_expression for an Identifier: a local, else a field
CompileIdentifier(c, e) ==
    LET field == CHOOSE f \in _find_field(c, e.name) : TRUE
    IN IF HasLocal(c, e.name)
         THEN Emit(c, load_local(get_local(c, e.name), c.b), get_local(c, e.name).type)
       ELSE IF _find_field(c, e.name) = {} THEN Raise(c, "Undefined variable")
       ELSE Emit(c, FieldOp(IF field.is_static THEN c.b ELSE Load(c.b, "aload", 0, 1),
                            IF field.is_static THEN "getstatic" ELSE "getfield",
                            c.g.class_name, e.name, TypeDescriptor(field.jtype), 1),
                 field.jtype)

compile_expression(c, e) ==
    IF c.error # "" THEN c
    ELSE IF e.k = "lit" THEN compile_literal(c, e)
    ELSE IF e.k = "id" THEN CompileIdentifier(c, e)
    ELSE IF e.k = "bin" THEN compile_binary(c, e)
    ELSE IF e.k = "assign" THEN compile_assignment(c, e)
    ELSE IF e.k = "call" THEN _compile_general_method_call(c, e)
    ELSE IF e.k = "ternary" THEN compile_ternary(c, e)
    ELSE Raise(c, "Unsupported expression type")

\* "self.compile_expression(expr, ctx)" then builder.ifne or builder.ifeq.  A
\* mutated variant, which branches with ifne for either polarity, precedes it.
TestBranch_ifne_only(val, target, jump_if_true) ==
    Emit(val, Branch(val.b, "ifne", target, 1), val.type)

TestBranch(val, target, jump_if_true) ==
    Emit(val, Branch(val.b, IF jump_if_true THEN "ifne" ELSE "ifeq", target, 1), val.type)

\* A comparison as a condition, after its operands: two ints branch directly;
\* operands of type long or boolean fall to the default, which evaluates the
\* whole expression.
CompareBranch(e, o, target, jump_if_true) ==
    IF o.left_type = "I" /\ o.c.type = "I"
      THEN Emit(o.c, Branch(o.c.b, IcmpOp(IF jump_if_true THEN e.op ELSE Inverted(e.op)),
                            target, 2),
                o.c.type)
    ELSE TestBranch(compile_expression(o.c, e), target, jump_if_true)

\* compile_condition over operands of type int, long and boolean: && and ||
\* chain conditions; anything but a comparison is evaluated and tested.
compile_condition(c, e, target, jump_if_true) ==
    IF c.error # "" THEN c
    ELSE IF e.k = "bin" /\ e.op \in Comparisons
      THEN CompareBranch(e, Operands(c, e), target, jump_if_true)
    ELSE IF e.k = "bin" /\ e.op = "&&" /\ jump_if_true
      THEN Labelled(compile_condition(compile_condition(Counted(c, 1), e.kids[1],
                                                        new_label(c, "and"), FALSE),
                                      e.kids[2], target, TRUE),
                    new_label(c, "and"))
    ELSE IF e.k = "bin" /\ e.op = "||" /\ ~jump_if_true
      THEN Labelled(compile_condition(compile_condition(Counted(c, 1), e.kids[1],
                                                        new_label(c, "or"), TRUE),
                                      e.kids[2], target, FALSE),
                    new_label(c, "or"))
    ELSE IF e.k = "bin" /\ e.op \in {"&&", "||"}
      THEN compile_condition(compile_condition(c, e.kids[1], target, jump_if_true),
                             e.kids[2], target, jump_if_true)
    ELSE IF e.k = "unary" /\ e.op = "!"
      THEN compile_condition(c, e.kids[1], target, ~jump_if_true)
    ELSE TestBranch(compile_expression(c, e), target, jump_if_true)

\* ------------------------------------------------------- statement compiler
\* A statement of the AST: k is "local", "expr", "return" or "if"; e holds the
\* initializer, expression or condition (empty if absent); kids the then and
\* else branches.
Stmt(k, type, name, e, kids) == [k |-> k, type |-> type, name |-> name, e |-> e, kids |-> kids]

\* The return instruction for the method's return type
ReturnOp(b, return_type) ==
    IF return_type = "V" THEN Plain(b, "return", 0, 0)
    ELSE IF return_type \in {"J", "D"} THEN Plain(b, Prefix(return_type) \o "return", 2, 0)
    ELSE Plain(b, Prefix(return_type) \o "return", 1, 0)

\* A ReturnStatement after its expression
ReturnValue(v, return_type) == Emit(v, ReturnOp(v.b, return_type), v.type)

\* An ExpressionStatement after its expression: pop the result if not void
ExpressionStatement(v) ==
    IF v.type = "V" THEN v
    ELSE IF TypeSize(v.type) = 2 THEN Emit(v, Plain(v.b, "pop2", 2, 0), v.type)
    ELSE Emit(v, Plain(v.b, "pop", 1, 0), v.type)

\* A LocalVariableDeclaration after its initializer: emit_conversion emits
\* nothing between primitive types; store_local(var, builder)
StoreInitializer(v, name) == Emit(v, store_local(get_local(v, name), v.b), v.type)

\* An IfStatement after its then branch
RECURSIVE compile_statement(_, _)
RECURSIVE compile_try(_, _)

\* EnhancedForStatement, the temporaries: $arr, $len and $i are added to the
\* method's locals and initialised from the array reference v leaves on the stack
LoadNamed(c, name) == Emit(c, load_local(get_local(c, name), c.b), c.type)

ArrayLength(c) == Emit(c, Plain(c.b, "arraylength", 1, 1), c.type)

IndexZero(c) == Emit(c, iconst(c.b, 0), c.type)

ForEachLocals(v) ==
    StoreInitializer(
        add_local(IndexZero(StoreInitializer(
            add_local(ArrayLength(LoadNamed(StoreInitializer(add_local(v, "$arr", v.type),
                                                             "$arr"), "$arr")),
                      "$len", "I"), "$len")),
                  "$i", "I"), "$i")

\* _emit_array_load
_emit_array_load(c, elem_type) ==
    Emit(c, IF elem_type = "J" THEN Plain(c.b, "laload", 2, 2)
            ELSE Plain(c.b, "iaload", 2, 1), c.type)

\* EnhancedForStatement, the loop head: the test $i < $len, then the element
\* variable is added to the locals and loaded from $arr[$i]
ForEachHead(c, s, elem_type, loop_label, end_label) ==
    StoreInitializer(
        _emit_array_load(
            LoadNamed(LoadNamed(
                add_local(Emit(c, Branch(LoadNamed(LoadNamed(Labelled(c, loop_label), "$i"),
                                                   "$len").b,
                                         "if_icmpge", end_label, 2), c.type),
                          s.name, s.type), "$arr"), "$i"),
            elem_type),
        s.name)

\* EnhancedForStatement, after the body: $i++ on the loop's own index slot,
\* the jump back and the end label.  Nothing is removed from the locals and
\* next_slot is left where the body left it.
ForEachIncrement(c, idx_slot) ==
    Emit(c, _emit(c.b, "iinc", 3, "", idx_slot, 0, 0, <<>>), c.type)

ForEachEnd(body, idx_slot, loop_label, end_label, update_label) ==
    GotoLabelled(ForEachIncrement(Labelled(body, update_label), idx_slot),
                 loop_label, end_label)

ForEachBody(head, s, loop_label, end_label, update_label) ==
    ForEachEnd(compile_statement(head, s.kids[1]), get_local(head, "$i").slot,
               loop_label, end_label, update_label)

\* EnhancedForStatement, from the compiled iterable v on
ForEachArray(v, s, loop_label, end_label, update_label) ==
    IF v.error # "" THEN v
    ELSE IF ~IsArray(v.type) THEN Raise(v, "Enhanced for loop requires array type")
    ELSE ForEachBody(ForEachHead(ForEachLocals(v), s, ElementType(v.type),
                                 loop_label, end_label),
                     s, loop_label, end_label, update_label)

compile_foreach(c, s) ==
    ForEachArray(compile_expression(Counted(c, 3), s.e[1]), s,
                 new_label(c, "foreach"), new_label(Counted(c, 1), "endforeach"),
                 new_label(Counted(c, 2), "foreach_update"))

IfEnd(c, s, then) ==
    IF Len(s.kids) = 1 THEN Labelled(then, new_label(c, "else"))
    ELSE Labelled(compile_statement(GotoLabelled(then, new_label(Counted(c, 1), "endif"),
                                                 new_label(c, "else")),
                                    s.kids[2]),
                  new_label(Counted(c, 1), "endif"))

compile_statement(c, s) ==
    IF c.error # "" THEN c
    ELSE IF s.k = "local"
      THEN (IF s.e = <<>> THEN add_local(c, s.name, s.type)
            ELSE StoreInitializer(compile_expression(add_local(c, s.name, s.type), s.e[1]),
                                  s.name))
    ELSE IF s.k = "expr" THEN ExpressionStatement(compile_expression(c, s.e[1]))
    ELSE IF s.k = "return"
      THEN (IF s.e = <<>> THEN Emit(c, Plain(c.b, "return", 0, 0), c.type)
            ELSE ReturnValue(compile_expression(c, s.e[1]), c.return_type))
    ELSE IF s.k = "if"
      THEN IfEnd(c, s, compile_statement(compile_condition(Counted(c, 2), s.e[1],
                                                           new_label(c, "else"), FALSE),
                                         s.kids[1]))
    ELSE IF s.k = "foreach" THEN compile_foreach(c, s)
    ELSE IF s.k = "try" THEN compile_try(c, s.e[1])
    ELSE Raise(c, "Unsupported statement")

\* The class being compiled: an instance method foo(), a static method
\* bar(int) returning int, and an instance field g of type long.
GenClass ==
    [class_name |-> "A", super_class_name |-> Object,
     local_methods |-> <<[name |-> "foo", params |-> <<>>, ret |-> "V",
                          is_static |-> FALSE, is_varargs |-> FALSE],
                         [name |-> "bar", params |-> <<"I">>, ret |-> "I",
                          is_static |-> TRUE, is_varargs |-> FALSE]>>,
     local_fields |-> {[name |-> "g", jtype |-> "J", is_static |-> FALSE]},
     classpath |-> {}]

\* compile_method up to the body: a fresh builder, this and the parameters
\* (int i, long l, boolean z) of an instance method.
MethodStart(return_type) ==
    add_local(add_local(add_local(add_local(
        [g |-> GenClass, label_counter |-> 0, b |-> NewBuilder(EmptyPool), locals |-> {},
         next_slot |-> 0, return_type |-> return_type, type |-> "V", error |-> ""],
        "this", "A"), "i", "I"), "l", "J"), "z", "Z")

GenIdle ==
    /\ gen = [c |-> MethodStart("V"), n |-> 0]
    /\ gen_last = [seen |-> FALSE, from |-> 0, before |-> 0, c |-> MethodStart("V")]
    /\ gen_out = [status |-> "none", attr |-> <<>>]

\* The builder before any method is compiled.
BbIdle ==
    /\ bb = NewBuilder(EmptyPool)
    /\ bb_out = [status |-> "none", attr |-> <<>>]

CpIdle ==
    /\ cp = EmptyPool
    /\ cp_last = [kind |-> "none", entry |-> Hole, present |-> FALSE,
                  before |-> EmptyPool, idx |-> 0]
    /\ cp_out = "none"

\* ------------------------------------------------- class files: the writer
\* ClassFile.__init__.  A member (FieldInfo, MethodInfo) keeps its name, its
\* descriptor and whether it carries a Code attribute; an AnnotationInfo keeps
\* its type descriptor and its elements in insertion order, each a name with
\* a (tag, value) pair.
ClassFile(name, super_class) ==
    [name |-> name, super_class |-> super_class, interfaces |-> <<>>, fields |-> <<>>,
     methods |-> <<>>, cp |-> EmptyPool, annotations |-> <<>>, version |-> JAVA_6,
     is_interface |-> FALSE]

FieldInfo(name, descriptor) ==
    [name |-> name, descriptor |-> descriptor, code |-> FALSE, abstract |-> FALSE]

MethodInfo(name, descriptor, abstract) ==
    [name |-> name, descriptor |-> descriptor, code |-> ~abstract, abstract |-> abstract]

AnnotationInfo(type_descriptor, elements) ==
    [type_descriptor |-> type_descriptor, elements |-> elements]

\* A run of calls on one pool: w.cp is the pool after them, w.idx the indexes
\* they returned, in order.
Calls(pool) == [cp |-> pool, idx |-> <<>>]

Took(w, r) == [cp |-> r.pool, idx |-> Append(w.idx, r.idx)]

RECURSIVE AddAllUtf8(_, _)
AddAllUtf8(w, values) ==
    IF values = <<>> THEN w
    ELSE AddAllUtf8(Took(w, add_utf8(w.cp, Head(values))), Tail(values))

RECURSIVE AddAllClasses(_, _)
AddAllClasses(w, names) ==
    IF names = <<>> THEN w
    ELSE AddAllClasses(Took(w, add_class(w.cp, Head(names))), Tail(names))

\* name, descriptor, name, descriptor, ... of a list of members
MemberStrings(members) ==
    [i \in 1 .. 2 * Len(members) |->
        IF i % 2 = 1 THEN members[(i + 1) \div 2].name ELSE members[i \div 2].descriptor]

\* type descriptor, then name, value, name, value, ... of the elements
ElementStrings(ann) ==
    <<ann.type_descriptor>> \o
    [i \in 1 .. 2 * Len(ann.elements) |->
        IF i % 2 = 1 THEN ann.elements[(i + 1) \div 2].name
        ELSE ann.elements[i \div 2].value]

\* ClassFile.to_bytes, "Prepare constant pool entries" up to the call of
\* self.cp.write: this class, superclass and interfaces, then the names and
\* descriptors of methods and fields, "Code", and "RuntimeVisibleAnnotations"
\* with the annotation type descriptors.  The elements of the annotations
\* are not among them.
PreUtf8(cf) ==
    MemberStrings(cf.methods) \o MemberStrings(cf.fields)
    \o (IF \E i \in DOMAIN cf.methods : cf.methods[i].code THEN <<"Code">> ELSE <<>>)
    \o (IF cf.annotations # <<>>
        THEN <<"RuntimeVisibleAnnotations">>
             \o [i \in DOMAIN cf.annotations |-> cf.annotations[i].type_descriptor]
        ELSE <<>>)

Prepared(cf) ==
    AddAllUtf8(AddAllClasses(Calls(cf.cp), <<cf.name, cf.super_class>> \o cf.interfaces),
               PreUtf8(cf))

\* An attribute as written: the index of its name and, for an annotations
\* attribute, the annotations in its data.
Attribute(name_idx, annotations) == [name_idx |-> name_idx, annotations |-> annotations]

\* MethodInfo.write and FieldInfo.write: name_idx, desc_idx and the Code
\* attribute, whose name CodeAttribute.write adds.
MemberItem(w, member) ==
    [cp |-> w.cp,
     item |-> [name_idx |-> w.idx[1], desc_idx |-> w.idx[2],
               attributes |-> IF member.code THEN <<Attribute(w.idx[3], <<>>)>> ELSE <<>>]]

MemberWrite(pool, member) ==
    MemberItem(AddAllUtf8(Calls(pool), <<member.name, member.descriptor>>
                                        \o (IF member.code THEN <<"Code">> ELSE <<>>)),
               member)

\* AnnotationInfo.write with _write_element_value for the tag 's'
AnnotationItem(w, ann) ==
    [cp |-> w.cp,
     item |-> [type_idx |-> w.idx[1],
               pairs |-> [i \in DOMAIN ann.elements |->
                            [name_idx |-> w.idx[2 * i], tag |-> ann.elements[i].tag,
                             const_idx |-> w.idx[2 * i + 1]]]]]

AnnotationWrite(pool, ann) == AnnotationItem(AddAllUtf8(Calls(pool), ElementStrings(ann)), ann)

\* "for x in xs: x.write(self.cp, out)": acc.cp is the pool, acc.items the
\* output so far.
Wrote(acc, r) == [cp |-> r.cp, items |-> Append(acc.items, r.item)]

RECURSIVE WriteMembers(_, _)
WriteMembers(acc, members) ==
    IF members = <<>> THEN acc
    ELSE WriteMembers(Wrote(acc, MemberWrite(acc.cp, Head(members))), Tail(members))

RECURSIVE WriteAnnotations(_, _)
WriteAnnotations(acc, annotations) ==
    IF annotations = <<>> THEN acc
    ELSE WriteAnnotations(Wrote(acc, AnnotationWrite(acc.cp, Head(annotations))),
                          Tail(annotations))

AttributeOf(n, a) == [cp |-> a.cp, items |-> <<Attribute(n.idx, a.items)>>]

AnnotationsAttribute(n, annotations) ==
    AttributeOf(n, WriteAnnotations([cp |-> n.pool, items |-> <<>>], annotations))

write_annotations_attribute(pool, attr_name, annotations) ==
    IF annotations = <<>> THEN [cp |-> pool, items |-> <<>>]
    ELSE AnnotationsAttribute(add_utf8(pool, attr_name), annotations)

\* The class file: the constant pool as it was when self.cp.write ran (w),
\* then the indexes that the rest of to_bytes writes.  entries_after counts the
\* entries of the ClassFile's own pool when to_bytes returns.
Serialized(w, f, m, a, interfaces_count, version) ==
    [major |-> version,
     constant_pool |-> w.cp.tail, this_class |-> w.idx[1], super_class |-> w.idx[2],
     interfaces |-> SubSeq(w.idx, 3, 2 + interfaces_count),
     fields |-> f.items, methods |-> m.items, attributes |-> a.items,
     entries_after |-> Len(a.cp.tail)]

WriteAttributes(cf, w, f, m) ==
    Serialized(w, f, m,
               write_annotations_attribute(m.cp, "RuntimeVisibleAnnotations", cf.annotations),
               Len(cf.interfaces), cf.version)

WriteMethods(cf, w, f) ==
    WriteAttributes(cf, w, f, WriteMembers([cp |-> f.cp, items |-> <<>>], cf.methods))

WriteFields(cf, w) ==
    WriteMethods(cf, w, WriteMembers([cp |-> w.cp, items |-> <<>>], cf.fields))

to_bytes(cf) == WriteFields(cf, Prepared(cf))

\* ------------------------------------------------- class files: the reader
\* The outcome of a read: the exception raised ("" for none) and the value.
Got(error, value) == [error |-> error, value |-> value]

\* The first exception among the outcomes of reads made in order.
Failure(gots) ==
    IF \A i \in DOMAIN gots : gots[i].error = "" THEN ""
    ELSE gots[CHOOSE i \in DOMAIN gots :
                 /\ gots[i].error # ""
                 /\ \A j \in 1 .. (i - 1) : gots[j].error = ""].error

All(gots) == Got(Failure(gots), [i \in DOMAIN gots |-> gots[i].value])

\* ClassReader._get_utf8; self.constant_pool is [None] followed by pool, so
\* an index past the entries raises IndexError and a hole AttributeError.
_get_utf8(pool, index) ==
    IF index = 0 THEN Got("", "")
    ELSE IF index > Len(pool) THEN Got("IndexError", "")
    ELSE IF pool[index] = Hole THEN Got("AttributeError", "")
    ELSE IF pool[index].tag = TagUtf8 THEN Got("", pool[index].s)
    ELSE Got("ValueError", "")

_get_class_name(pool, index) ==
    IF index = 0 THEN Got("", "")
    ELSE IF index > Len(pool) THEN Got("IndexError", "")
    ELSE IF pool[index] = Hole THEN Got("AttributeError", "")
    ELSE IF pool[index].tag = TagClass THEN _get_utf8(pool, pool[index].a)
    ELSE Got("ValueError", "")

\* ClassReader._read_element_value for the tag 's'
_read_element_value(pool, pair) ==
    IF pair.tag # "s" THEN Got("ValueError", "")
    ELSE IF pair.const_idx > Len(pool) THEN Got("IndexError", "")
    ELSE _get_utf8(pool, pair.const_idx)

\* name, value, name, value, ... as _read_annotation reads the pairs
PairGots(pool, pairs) ==
    [i \in 1 .. 2 * Len(pairs) |->
        IF i % 2 = 1 THEN _get_utf8(pool, pairs[(i + 1) \div 2].name_idx)
        ELSE _read_element_value(pool, pairs[i \div 2])]

AnnotationGot(type_name, gots) == Got(Failure(<<type_name>> \o gots), type_name.value)

_read_annotation(pool, a) ==
    AnnotationGot(_get_utf8(pool, a.type_idx), PairGots(pool, a.pairs))

\* One round of the loop of _read_attributes: the name, then the data of an
\* annotations attribute; the data of any other attribute is skipped.
AttributeGot(pool, attr, name) ==
    IF name.error # "" THEN Got(name.error, <<>>)
    ELSE IF name.value = "RuntimeVisibleAnnotations"
    THEN All([i \in DOMAIN attr.annotations |-> _read_annotation(pool, attr.annotations[i])])
    ELSE Got("", <<>>)

_read_attributes(pool, attrs) ==
    All([i \in DOMAIN attrs |->
           AttributeGot(pool, attrs[i], _get_utf8(pool, attrs[i].name_idx))])

\* _read_field and _read_method: the attributes, then name and descriptor
MemberGot(attrs, name, descriptor) ==
    Got(Failure(<<attrs, name, descriptor>>),
        [name |-> name.value, descriptor |-> descriptor.value])

_read_member(pool, item) ==
    MemberGot(_read_attributes(pool, item.attributes), _get_utf8(pool, item.name_idx),
              _get_utf8(pool, item.desc_idx))

ClassInfo(this_class, super_class, interfaces, fields, methods, attrs) ==
    [error |-> Failure(<<this_class, super_class, interfaces, fields, methods, attrs>>),
     name |-> this_class.value, super_class |-> super_class.value,
     interfaces |-> interfaces.value, fields |-> fields.value, methods |-> methods.value,
     annotations |-> attrs.value]

ReadFrom(pool, bytes) ==
    ClassInfo(_get_class_name(pool, bytes.this_class),
              _get_class_name(pool, bytes.super_class),
              All([i \in DOMAIN bytes.interfaces |-> _get_class_name(pool, bytes.interfaces[i])]),
              All([i \in DOMAIN bytes.fields |-> _read_member(pool, bytes.fields[i])]),
              All([i \in DOMAIN bytes.methods |-> _read_member(pool, bytes.methods[i])]),
              _read_attributes(pool, bytes.attributes))

\* ClassReader(class_bytes).read()
read(bytes) == ReadFrom(bytes.constant_pool, bytes)

\* --------------------------------------------------- compilation of types
\* A name under construction is the sequence of its pieces ("p", "/", "Outer",
\* "$", "I"); Str is the string the f-string produces.
RECURSIVE Str(_)
Str(tokens) == IF tokens = <<>> THEN "" ELSE Head(tokens) \o Str(Tail(tokens))

\* "/" in outer_class
Contains(tokens, t) == \E i \in DOMAIN tokens : tokens[i] = t

\* outer_class.rstrip("/")
RECURSIVE rstrip(_, _)
rstrip(tokens, t) ==
    IF tokens # <<>> /\ tokens[Len(tokens)] = t
    THEN rstrip(SubSeq(tokens, 1, Len(tokens) - 1), t) ELSE tokens

\* name.replace(".", "/")
Replaced(tokens, old, new) ==
    [i \in DOMAIN tokens |-> IF tokens[i] = old THEN new ELSE tokens[i]]

\* class_name.split("/")[-1]
RECURSIVE LastSegment(_)
LastSegment(tokens) ==
    IF Contains(tokens, "/") THEN LastSegment(Tail(tokens)) ELSE tokens

\* The first statement of compile_class and of compile_interface: an
\* outer_class that contains "/" is taken for a package prefix.
TypeName(outer_class, name) ==
    IF outer_class # <<>>
    THEN IF Contains(outer_class, "/") THEN rstrip(outer_class, "/") \o <<"/", name>>
         ELSE outer_class \o <<"$", name>>
    ELSE <<name>>

JAVA_LANG_CLASSES == {"Object", "Runnable", "Deprecated", "SuppressWarnings"}

_resolve_class_name(class_name, name) ==
    IF name \in JAVA_LANG_CLASSES THEN "java/lang/" \o name
    ELSE IF name = Str(class_name) \/ name = Str(LastSegment(class_name)) THEN Str(class_name)
    ELSE name

\* _convert_annotations over the annotation modifiers; every value is a
\* string literal, tag 's'.
_convert_annotation(class_name, ann) ==
    AnnotationInfo("L" \o _resolve_class_name(class_name, ann.name) \o ";",
                   [i \in DOMAIN ann.arguments |->
                      [name |-> IF ann.arguments[i].name # "" THEN ann.arguments[i].name
                                ELSE "value",
                       tag |-> "s", value |-> ann.arguments[i].value]])

\* What a compile_* call has produced: the exception it raised ("" for none)
\* and the classes, each with the name it is returned and cached under, the
\* ClassFile it was serialized from and its bytes.
Compiled(error, classes) == [error |-> error, classes |-> classes]

ClassOf(name, cf) == [name |-> name, cf |-> cf, bytes |-> to_bytes(cf)]

\* needs_java8: a method of the interface has a body
NeedsJava8(iface) == \E i \in DOMAIN iface.methods : ~iface.methods[i].abstract

\* A mutated compile_interface, which leaves the default version.
InterfaceFile_default_version(iface, outer_class) ==
    [ClassFile(Str(TypeName(outer_class, iface.name)), Object) EXCEPT
        !.is_interface = TRUE,
        !.interfaces = [i \in DOMAIN iface.implements |->
                          _resolve_class_name(TypeName(outer_class, iface.name),
                                              iface.implements[i])],
        !.methods = [i \in DOMAIN iface.methods |->
                       MethodInfo(iface.methods[i].name, iface.methods[i].descriptor,
                                  iface.methods[i].abstract)]]

\* compile_interface: the ClassFile before to_bytes.  A method without a body
\* is abstract, a method with a body carries code; annotations are not copied.
InterfaceFile(iface, outer_class) ==
    [ClassFile(Str(TypeName(outer_class, iface.name)), Object) EXCEPT
        !.version = IF NeedsJava8(iface) THEN JAVA_8 ELSE JAVA_6,
        !.is_interface = TRUE,
        !.interfaces = [i \in DOMAIN iface.implements |->
                          _resolve_class_name(TypeName(outer_class, iface.name),
                                              iface.implements[i])],
        !.methods = [i \in DOMAIN iface.methods |->
                       MethodInfo(iface.methods[i].name, iface.methods[i].descriptor,
                                  iface.methods[i].abstract)]]

compile_interface(iface, outer_class) == to_bytes(InterfaceFile(iface, outer_class))

\* self.is_inner_class
IsInner(cls, outer_class) ==
    outer_class # <<>> /\ ~cls.is_static /\ ~Contains(outer_class, "/")

\* _generate_default_constructor: the descriptor, and the pool after
\* invokespecial of the superclass constructor and, in an inner class, the
\* putfield of this$0.
ConstructorDescriptor(inner, outer_class) ==
    IF inner THEN "(L" \o Str(outer_class) \o ";)V" ELSE "()V"

ConstructorPool(pool, class_name, inner, outer_class) ==
    IF inner
    THEN AddRef(AddRef(pool, TagMethodref, Object, "<init>", "()V").pool, TagFieldref,
                Str(class_name), "this$0", "L" \o Str(outer_class) \o ";").pool
    ELSE AddRef(pool, TagMethodref, Object, "<init>", "()V").pool

\* compile_class from ClassFile(...) to the default constructor: interfaces,
\* annotations, this$0, compile_field and compile_method for the members.
ClassMembers(cls, class_name, outer_class, inner) ==
    [ClassFile(Str(class_name), Object) EXCEPT
        !.interfaces = [i \in DOMAIN cls.implements |->
                          _resolve_class_name(class_name, cls.implements[i])],
        !.annotations = [i \in DOMAIN cls.annotations |->
                           _convert_annotation(class_name, cls.annotations[i])],
        !.fields = (IF inner THEN <<FieldInfo("this$0", "L" \o Str(outer_class) \o ";")>>
                    ELSE <<>>)
                   \o [i \in DOMAIN cls.fields |->
                         FieldInfo(cls.fields[i].name, cls.fields[i].descriptor)],
        !.methods = [i \in DOMAIN cls.methods |->
                       MethodInfo(cls.methods[i].name, cls.methods[i].descriptor,
                                  cls.methods[i].abstract)]
                    \o <<MethodInfo("<init>", ConstructorDescriptor(inner, outer_class), FALSE)>>,
        !.cp = ConstructorPool(@, class_name, inner, outer_class)]

\* _cache_compiled_class: the exception it raises, "" for none.  A class that
\* does not read back raises CompileError.
_cache_compiled_class(bytes) == IF read(bytes).error # "" THEN "CompileError" ELSE ""

\* "for name, bytecode in nested_results.items(): _cache_compiled_class(...)"
CacheAll(r) ==
    IF r.error # "" THEN r
    ELSE IF \E i \in DOMAIN r.classes : _cache_compiled_class(r.classes[i].bytes) # ""
    THEN Compiled("CompileError", r.classes)
    ELSE r

\* nested_classes.update(...)
Joined(acc, r) == Compiled(r.error, acc.classes \o r.classes)

\* compile_class after the nested types: compile_method for the members (a
\* lambda expression in a body is an unsupported expression type for
\* compile_expression, which raises CompileError), the check for abstract methods,
\* then "result = {self.class_name: to_bytes()}; result.update(nested)".
OwnClass(cls, class_name, outer_class, nested) ==
    IF nested.error # "" THEN nested
    ELSE IF \E i \in DOMAIN cls.methods : cls.methods[i].lambda
    THEN Compiled("CompileError", nested.classes)
    ELSE IF (\E i \in DOMAIN cls.methods : cls.methods[i].abstract) /\ ~cls.is_abstract
    THEN Compiled("CompileError", nested.classes)
    ELSE Compiled("", <<ClassOf(Str(class_name),
                                ClassMembers(cls, class_name, outer_class,
                                             IsInner(cls, outer_class)))>>
                      \o nested.classes)

RECURSIVE compile_class(_, _)
\* One nested member of the first pass: a class is compiled by compile_class
\* and cached under the names of its result, an interface is compiled by
\* compile_interface and stored and cached under nested_name.
Nested(member, saved_class_name) ==
    IF member.kind = "class" THEN CacheAll(compile_class(member, saved_class_name))
    ELSE CacheAll(Compiled("", <<[name |-> Str(saved_class_name \o <<"$", member.name>>),
                                  cf |-> InterfaceFile(member, saved_class_name),
                                  bytes |-> compile_interface(member, saved_class_name)]>>))

RECURSIVE CompileNested(_, _, _)
CompileNested(acc, body, saved_class_name) ==
    IF body = <<>> \/ acc.error # "" THEN acc
    ELSE CompileNested(Joined(acc, Nested(Head(body), saved_class_name)), Tail(body),
                       saved_class_name)

NamedClass(cls, class_name, outer_class) ==
    OwnClass(cls, class_name, outer_class,
             CompileNested(Compiled("", <<>>), cls.body, class_name))

compile_class(cls, outer_class) == NamedClass(cls, TypeName(outer_class, cls.name), outer_class)

\* results[name] = bytecode
Put(results, class) ==
    IF \E i \in DOMAIN results : results[i].name = class.name
    THEN [i \in DOMAIN results |-> IF results[i].name = class.name THEN class ELSE results[i]]
    ELSE Append(results, class)

\* The loop body of compile for a class: a raise inside compile_class, or
\* "results[name] = bytecode; self._cache_compiled_class(name, bytecode)" for
\* each class of the result.
RECURSIVE TakeAll(_, _)
TakeAll(acc, classes) ==
    IF classes = <<>> \/ acc.error # "" THEN acc
    ELSE TakeAll(Compiled(_cache_compiled_class(Head(classes).bytes),
                          Put(acc.classes, Head(classes))),
                 Tail(classes))

TakeClasses(acc, r) ==
    IF r.error # "" THEN Compiled(r.error, acc.classes) ELSE TakeAll(acc, r.classes)

\* The loop body of compile for an interface: the bytes are read, stored
\* under info.name and cached.
TakeInterface(acc, cf, bytes, info) ==
    IF info.error # "" THEN Compiled(info.error, acc.classes)
    ELSE Compiled(_cache_compiled_class(bytes),
                  Put(acc.classes, [name |-> info.name, cf |-> cf, bytes |-> bytes]))

ReadInterface(acc, cf, bytes) == TakeInterface(acc, cf, bytes, read(bytes))

TopLevel(acc, type_decl, package_prefix) ==
    IF type_decl.kind = "class"
    THEN TakeClasses(acc, compile_class(type_decl, package_prefix))
    ELSE ReadInterface(acc, InterfaceFile(type_decl, package_prefix),
                       compile_interface(type_decl, package_prefix))

RECURSIVE CompileTypes(_, _, _)
CompileTypes(acc, types, package_prefix) ==
    IF types = <<>> \/ acc.error # "" THEN acc
    ELSE CompileTypes(TopLevel(acc, Head(types), package_prefix), Tail(types), package_prefix)

\* unit.package.name.replace(".", "/") + "/"
PackagePrefix(package) ==
    IF package # <<>> THEN Replaced(package, ".", "/") \o <<"/">> ELSE <<>>

\* The outcome of the call: a raise leaves the caller without a value, so
\* "returned" is empty then; "produced" is the dict results as it was.
Outcome(acc) ==
    [error |-> acc.error, produced |-> acc.classes,
     returned |-> IF acc.error # "" THEN <<>> ELSE acc.classes]

Swallowed(acc) == [error |-> acc.error, produced |-> acc.classes, returned |-> acc.classes]

\* CodeGenerator.compile.  A mutated variant, which returns the classes
\* collected so far when an exception is raised, precedes it.
compile_swallowing(unit) ==
    Swallowed(CompileTypes(Compiled("", <<>>), unit.types, PackagePrefix(unit.package)))

compile(unit) ==
    Outcome(CompileTypes(Compiled("", <<>>), unit.types, PackagePrefix(unit.package)))

DrvIdle ==
    /\ drv = [status |-> "running", files |-> 0, disk |-> {}, total_classes |-> 0,
              zip_files |-> <<>>]
    /\ drv_last = [seen |-> FALSE, error |-> "", produced |-> <<>>, returned |-> <<>>,
                   wrote |-> <<>>, before |-> {}]

\* ------------------------------------------- the compile pass, step by step
\* The fields of the CodeGenerator that compile_class and compile_interface
\* assign, as __init__ leaves them.  Class names are kept as name pieces.
Generator ==
    [class_name |-> <<>>, class_file |-> ClassFile("", Object), super_class_name |-> Object,
     _local_methods |-> <<>>, _local_fields |-> <<>>, _static_init_sequence |-> <<>>,
     _instance_init_sequence |-> <<>>, is_inner_class |-> FALSE, outer_class_name |-> <<>>]

\* cls.extends resolved to an internal name, java/lang/Object without it
SuperOf(class_name, cls) ==
    IF cls.extends # "" THEN _resolve_class_name(class_name, cls.extends) ELSE Object

\* compile_class from its first statement to the registration of the fields
\* and methods of the class, before the nested types are compiled.
Entered(g, cls, class_name) ==
    [g EXCEPT
        !.class_name = class_name,
        !.super_class_name = SuperOf(class_name, cls),
        !.class_file =
            [ClassFile(Str(class_name), SuperOf(class_name, cls)) EXCEPT
                !.interfaces = [i \in DOMAIN cls.implements |->
                                  _resolve_class_name(class_name, cls.implements[i])],
                !.annotations = [i \in DOMAIN cls.annotations |->
                                   _convert_annotation(class_name, cls.annotations[i])]],
        !._local_methods = cls.methods,
        !._local_fields = cls.fields,
        !._static_init_sequence = <<>>,
        !._instance_init_sequence = <<>>]

EnterClass(g, cls, outer_class) == Entered(g, cls, TypeName(outer_class, cls.name))

\* compile_interface as it leaves the generator: the fields it assigns
EnterInterface(g, iface, outer_class) ==
    [g EXCEPT
        !.class_name = TypeName(outer_class, iface.name),
        !.super_class_name = Object,
        !.class_file = InterfaceFile(iface, outer_class),
        !._local_methods = iface.methods,
        !._local_fields = iface.fields,
        !._static_init_sequence = <<>>,
        !._instance_init_sequence = <<>>]

\* "Save current state before compiling nested classes"
Saved(g) ==
    [class_name |-> g.class_name, class_file |-> g.class_file,
     super_class_name |-> g.super_class_name,
     _static_init_sequence |-> g._static_init_sequence,
     _instance_init_sequence |-> g._instance_init_sequence,
     _local_methods |-> g._local_methods, _local_fields |-> g._local_fields]

\* A mutated restore, which leaves the superclass name of the nested type.
Restored_without_super_class(g, saved) ==
    [g EXCEPT
        !.class_name = saved.class_name,
        !.class_file = saved.class_file,
        !._static_init_sequence = saved._static_init_sequence,
        !._instance_init_sequence = saved._instance_init_sequence,
        !._local_methods = saved._local_methods,
        !._local_fields = saved._local_fields]

\* "Restore state after compiling nested classes"
Restored(g, saved) ==
    [g EXCEPT
        !.class_name = saved.class_name,
        !.class_file = saved.class_file,
        !.super_class_name = saved.super_class_name,
        !._static_init_sequence = saved._static_init_sequence,
        !._instance_init_sequence = saved._instance_init_sequence,
        !._local_methods = saved._local_methods,
        !._local_fields = saved._local_fields]

\* self._class_cache: the keys with the class info read from the bytes
CacheEntry(key, info) == [key |-> key, info |-> info]

CachePut(cache, key, info) == {e \in cache : e.key # key} \cup {CacheEntry(key, info)}

\* _find_constructor for a call without arguments, with no classpath: the
\* owner of the resolved constructor, or none.
_find_constructor(cache, class_name) ==
    {e.info.name : e \in {c \in cache :
        /\ c.key = class_name
        /\ \E i \in DOMAIN c.info.methods :
              /\ c.info.methods[i].name = "<init>"
              /\ c.info.methods[i].descriptor = "()V"}}

\* _invoke_super_constructor without arguments: the builder after aload 0
\* and invokespecial, or the CompileError for an unresolved constructor of a
\* superclass other than Object.
Invoked(b, error) == [b |-> b, error |-> error]

SuperInvoked(b, owner) ==
    Invoked(invokespecial(Load(b, "aload", 0, 1), owner, "<init>",
                          [params |-> <<>>, ret |-> "V"], 0, 0), "")

_invoke_super_constructor(g, cache, b) ==
    IF _find_constructor(cache, g.super_class_name) # {}
    THEN SuperInvoked(b, CHOOSE owner \in _find_constructor(cache, g.super_class_name) : TRUE)
    ELSE IF g.super_class_name # Object THEN Invoked(b, "CompileError")
    ELSE SuperInvoked(b, g.super_class_name)

\* "aload 0; aload 1; putfield this$0" of an inner class
StoreOuter(g, b) ==
    IF g.is_inner_class
    THEN FieldOp(Load(Load(b, "aload", 0, 1), "aload", 1, 1), "putfield", Str(g.class_name),
                 "this$0", "L" \o Str(g.outer_class_name) \o ";", 1)
    ELSE b

\* The constructors compiled so far: the constant pool of the class file,
\* which every builder shares, the CodeAttributes and the error raised.
ConstructorBuilt(acc, b) ==
    [pool |-> b.cp, codes |-> Append(acc.codes, build(b)), error |-> acc.error]

\* The end of a constructor: this$0, the instance initializers (the blocks of
\* the classes compiled here are empty) and return.
ConstructorEnd(acc, g, r) ==
    IF r.error # "" THEN [acc EXCEPT !.error = r.error]
    ELSE ConstructorBuilt(acc, Plain(StoreOuter(g, r.b), "return", 0, 0))

_generate_default_constructor(acc, g, cache) ==
    ConstructorEnd(acc, g, _invoke_super_constructor(g, cache, NewBuilder(acc.pool)))

\* compile_constructor for a constructor without parameters whose body is
\* empty ("plain") or the call super() ("super"); this(...) is not supported.
compile_constructor(acc, g, cache, ctor) ==
    IF ctor = "this" THEN [acc EXCEPT !.error = "CompileError"]
    ELSE ConstructorEnd(acc, g, _invoke_super_constructor(g, cache, NewBuilder(acc.pool)))

RECURSIVE CompileConstructors(_, _, _, _)
CompileConstructors(acc, g, cache, ctors) ==
    IF ctors = <<>> \/ acc.error # "" THEN acc
    ELSE CompileConstructors(compile_constructor(acc, g, cache, Head(ctors)), g, cache,
                             Tail(ctors))

\* The third pass of compile_class over the constructors, or the default
\* constructor when there is none.
Constructors(g, cache, cls) ==
    IF cls.constructors = <<>>
    THEN _generate_default_constructor([pool |-> g.class_file.cp, codes |-> <<>>,
                                        error |-> ""], g, cache)
    ELSE CompileConstructors([pool |-> g.class_file.cp, codes |-> <<>>, error |-> ""],
                             g, cache, cls.constructors)

\* compile_class after the restore: is_inner_class, this$0 and the second
\* pass over the initializer blocks.
Inner(g, cls, outer_class) ==
    [g EXCEPT
        !.is_inner_class = IsInner(cls, outer_class),
        !.outer_class_name = IF IsInner(cls, outer_class) THEN outer_class ELSE <<>>,
        !._local_fields = IF IsInner(cls, outer_class)
                          THEN Append(@, [name |-> "this$0",
                                          descriptor |-> "L" \o Str(outer_class) \o ";",
                                          abstract |-> FALSE, lambda |-> FALSE])
                          ELSE @,
        !._instance_init_sequence = @ \o [i \in 1 .. cls.initializers |-> "block"]]

\* The class file after the third pass: the fields, the methods and the
\* constructors, whose code added its references to the pool.
WithMembers(g, cls, outer_class, built) ==
    [g.class_file EXCEPT
        !.fields = (IF g.is_inner_class
                    THEN <<FieldInfo("this$0", "L" \o Str(outer_class) \o ";")>>
                    ELSE <<>>)
                   \o [i \in DOMAIN cls.fields |->
                         FieldInfo(cls.fields[i].name, cls.fields[i].descriptor)],
        !.methods = [i \in DOMAIN cls.methods |->
                       MethodInfo(cls.methods[i].name, cls.methods[i].descriptor,
                                  cls.methods[i].abstract)]
                    \o [i \in DOMAIN built.codes |->
                          MethodInfo("<init>",
                                     ConstructorDescriptor(g.is_inner_class, outer_class),
                                     FALSE)],
        !.cp = built.pool]

\* A class as compile_class returns it: its name in the result, its class
\* file and bytes, the code of its constructors, and whether it was declared
\* as a non-static class nested in another class.
Emitted(name, cf, constructors, inner) ==
    [name |-> name, cf |-> cf, bytes |-> to_bytes(cf), constructors |-> constructors,
     inner |-> inner]

\* An entry of the record of the pass: a type began to compile, the bytes of
\* a class were produced, a class was stored in the class cache.
Event(kind, name) == [kind |-> kind, name |-> name]

\* A call of compile_class in progress: its arguments, the state it saved,
\* the members of the body still to visit in the first pass and the dict
\* nested_classes.
Frame(cls, outer_class, saved) ==
    [cls |-> cls, outer_class |-> outer_class, saved |-> saved, todo |-> cls.body,
     nested |-> <<>>, pc |-> "nested"]

PassStart(unit) ==
    [g |-> Generator, stack |-> <<>>, types |-> unit.types,
     package_prefix |-> PackagePrefix(unit.package), ret |-> <<>>, cache |-> {},
     results |-> <<>>, log |-> <<>>, status |-> "compiling"]

PassIdle == gp = PassStart([package |-> <<>>, types |-> <<>>])

\* ----------------------------------------------- the order of compilation
\* A source file as the driver sees it: its path, the package it declares
\* ("" for none), its imports and the types it declares, each with the names
\* after extends and implements.
SourceFile(path, package, imports, types) ==
    [path |-> path, package |-> package, imports |-> imports, types |-> types]

Import(package, simple, is_wildcard) ==
    [package |-> package, simple |-> simple, is_static |-> FALSE, is_wildcard |-> is_wildcard]

DeclaredType(kind, name, extends, implements) ==
    [kind |-> kind, name |-> name, extends |-> extends, implements |-> implements]

\* f"{package}.{type_name}" if package else type_name
FullName(package, simple) == IF package # "" THEN package \o "." \o simple ELSE simple

\* imp.name: the qualified name, the package for an import on demand
ImportName(imp) == IF imp.is_wildcard THEN imp.package ELSE FullName(imp.package, imp.simple)

\* The first pass of _topological_sort: type_to_file as a list of items, a
\* later file replacing an earlier one that declares the same name.
TypeItem(package, simple, path) ==
    [full |-> FullName(package, simple), package |-> package, simple |-> simple, file |-> path]

RECURSIVE TypeToFile(_, _)
TypeToFile(items, files) ==
    IF files = <<>> THEN items
    ELSE TypeToFile(
            {t \in items : \A i \in DOMAIN Head(files).types :
                              t.full # FullName(Head(files).package, Head(files).types[i].name)}
            \cup {TypeItem(Head(files).package, Head(files).types[i].name, Head(files).path) :
                     i \in DOMAIN Head(files).types},
            Tail(files))

\* The words of the source text of a file that can be names of types.
SourceText(f) ==
    {f.types[i].name : i \in DOMAIN f.types}
    \cup {f.imports[i].simple : i \in {j \in DOMAIN f.imports : ~f.imports[j].is_wildcard}}
    \cup UNION {{f.types[i].extends[k] : k \in DOMAIN f.types[i].extends} : i \in DOMAIN f.types}
    \cup UNION {{f.types[i].implements[k] : k \in DOMAIN f.types[i].implements} :
                  i \in DOMAIN f.types}

\* The second pass for one file: the names in deps.  A superclass is looked
\* at for a class only, the implemented interfaces for a class (or an enum);
\* the interfaces an interface extends are not looked at.
FileDeps(f, type_to_file) ==
    {ImportName(f.imports[i]) :
        i \in {j \in DOMAIN f.imports : ~f.imports[j].is_static /\ ~f.imports[j].is_wildcard}}
    \cup {t.full : t \in {u \in type_to_file :
                            /\ u.file # f.path
                            /\ f.package # ""
                            /\ u.package = f.package
                            /\ u.simple \in SourceText(f)}}
    \cup {t.full : t \in {u \in type_to_file :
                            \E i \in DOMAIN f.types :
                               /\ f.types[i].kind = "class"
                               /\ \/ \E k \in DOMAIN f.types[i].extends :
                                        u.full = FullName(f.package, f.types[i].extends[k])
                                  \/ \E k \in DOMAIN f.types[i].implements :
                                        u.full = FullName(f.package, f.types[i].implements[k])}}

\* The files that the dependencies of f lead to: one for each name of deps
\* that is declared in another file.
DepFiles(f, type_to_file) ==
    {t \in type_to_file : t.full \in FileDeps(f, type_to_file) /\ t.file # f.path}

\* in_degree[file] after "Build adjacency list"
InDegree(f, type_to_file) == Cardinality(DepFiles(f, type_to_file))

\* adj[dep_file]: the files that depend on it, in the order of the files,
\* once for each dependency.
RECURSIVE Adjacent(_, _, _)
Adjacent(path, files, type_to_file) ==
    IF files = <<>> THEN <<>>
    ELSE [i \in 1 .. Cardinality({t \in DepFiles(Head(files), type_to_file) : t.file = path})
             |-> Head(files).path]
         \o Adjacent(path, Tail(files), type_to_file)

\* One round of "for neighbor in adj[current]"
RECURSIVE Released(_, _)
Released(k, neighbors) ==
    IF neighbors = <<>> THEN k
    ELSE Released([in_degree |-> [k.in_degree EXCEPT ![Head(neighbors)] = @ - 1],
                   queue |-> IF k.in_degree[Head(neighbors)] = 1
                             THEN Append(k.queue, Head(neighbors)) ELSE k.queue],
                  Tail(neighbors))

PathsOf(files) == [i \in DOMAIN files |-> files[i].path]

SortIdle ==
    srt = [pc |-> "idle", files |-> <<>>, in_degree |-> <<>>, queue |-> <<>>, result |-> <<>>,
           file_paths |-> <<>>, compiled |-> <<>>]

\* ------------------------------------------- loops, switches and break
\* A MethodContext while the body of a method is compiled statement by
\* statement: the builder, the generator's label counter, loop_stack and
\* switch_break_label ("" for None).  open holds the loops and switches whose
\* body is being compiled, innermost last, each with the labels its compiler
\* keeps in local variables; last is the break compiled by the latest step.
FlowStart ==
    [b |-> NewBuilder(EmptyPool), label_counter |-> 0, loop_stack |-> <<>>,
     switch_break_label |-> "", open |-> <<>>, n |-> 0, error |-> "",
     last |-> [seen |-> FALSE, target |-> "", open |-> <<>>]]

Open(kind, loop_label, end_label, old_switch_break, case_labels) ==
    [kind |-> kind, loop_label |-> loop_label, end_label |-> end_label,
     old_switch_break |-> old_switch_break, case_labels |-> case_labels]

push_loop(c, break_label, continue_label) ==
    [c EXCEPT !.loop_stack = Append(@, [break_label |-> break_label,
                                        continue_label |-> continue_label])]

pop_loop(c) == [c EXCEPT !.loop_stack = SubSeq(@, 1, Len(@) - 1)]

\* MethodContext.get_break_label(None)
get_break_label(c) ==
    IF c.switch_break_label # "" THEN [error |-> "", label |-> c.switch_break_label]
    ELSE IF c.loop_stack = <<>>
      THEN [error |-> "break outside of loop or switch", label |-> ""]
    ELSE [error |-> "", label |-> c.loop_stack[Len(c.loop_stack)].break_label]

\* compile_condition for a condition that is the boolean local in slot 1
FlowCondition(b, target, jump_if_true) ==
    Branch(Load(b, "iload", 1, 1), IF jump_if_true THEN "ifne" ELSE "ifeq", target, 1)

\* WhileStatement up to the body
WhileEntered(c, loop_label, end_label) ==
    [push_loop(Counted(c, 2), end_label, loop_label) EXCEPT
        !.b = FlowCondition(label(c.b, loop_label), end_label, FALSE),
        !.open = Append(@, Open("while", loop_label, end_label, "", <<>>))]

\* DoWhileStatement up to the body
DoEntered(c, loop_label, end_label) ==
    [push_loop(Counted(c, 2), end_label, loop_label) EXCEPT
        !.b = label(c.b, loop_label),
        !.open = Append(@, Open("do", loop_label, end_label, "", <<>>))]

\* _compile_switch of "switch (i) { case 1: ... default: ... }", i the int
\* local in slot 2, up to the statements of the first case
SwitchEntered(c, end_label, case_labels) ==
    [Counted(c, 3) EXCEPT
        !.b = label(lookupswitch(Load(c.b, "iload", 2, 1), case_labels[2],
                                 <<[match |-> 1, label |-> case_labels[1]]>>),
                    case_labels[1]),
        !.switch_break_label = end_label,
        !.open = Append(@, Open("switch", "", end_label, c.switch_break_label,
                                Tail(case_labels)))]

\* "builder.label(case_labels[i])" of the next case
CaseEntered(c, f) ==
    [c EXCEPT !.b = label(@, Head(f.case_labels)),
              !.open = [@ EXCEPT ![Len(@)] = [f EXCEPT !.case_labels = Tail(@)]]]

\* "builder.goto(ctx.get_break_label(stmt.label))" of an unlabeled break
Broken(c, r) ==
    IF r.error # "" THEN [c EXCEPT !.error = r.error]
    ELSE [c EXCEPT !.b = Branch(@, "goto", r.label, 0),
                   !.last = [seen |-> TRUE, target |-> r.label, open |-> c.open]]

RECURSIVE LabelAll(_, _)
LabelAll(b, names) ==
    IF names = <<>> THEN b ELSE LabelAll(label(b, Head(names)), Tail(names))

\* The statements after the body of the innermost loop or switch; the cases
\* not entered yet have no statements.
Closed(c, f) ==
    IF f.kind = "while"
      THEN [pop_loop(c) EXCEPT
              !.b = label(Branch(@, "goto", f.loop_label, 0), f.end_label)]
    ELSE IF f.kind = "do"
      THEN [pop_loop(c) EXCEPT
              !.b = label(FlowCondition(@, f.loop_label, TRUE), f.end_label)]
    ELSE [c EXCEPT !.b = label(LabelAll(@, f.case_labels), f.end_label),
                   !.switch_break_label = f.old_switch_break]

Left(c) == [c EXCEPT !.open = SubSeq(@, 1, Len(@) - 1)]

FlowIdle == fl = FlowStart

\* ------------------------------------------------------ try-catch-finally
\* A TryStatement: its body, its catch clauses (each the resolved name of the
\* exception class, the parameter name and a body) and finally_block, <<>>
\* for None and else the one block.  Blocks are sequences of statements.
TryStatement(body, catches, finally_block) ==
    [body |-> body, catches |-> catches, finally_block |-> finally_block]

CatchClause(type, name, body) == [type |-> type, name |-> name, body |-> body]

RECURSIVE compile_block(_, _)
compile_block(c, block) ==
    IF block = <<>> THEN c
    ELSE compile_block(compile_statement(c, Head(block)), Tail(block))

\* compile_block observed: the offsets at which the code of the block begins
\* and ends are noted with the part of the try statement the block is.
Block(c, block, what) ==
    [compile_block(c, block) EXCEPT
        !.marks = Append(@, [what |-> what, from |-> c.b.size,
                             to |-> compile_block(c, block).b.size])]

\* The labels _compile_try draws before it emits anything
TryLabels(c, s) ==
    [try_start |-> new_label(c, "try_start"),
     try_end |-> new_label(Counted(c, 1), "try_end"),
     end_label |-> new_label(Counted(c, 2), "try_done"),
     catch_labels |-> [i \in DOMAIN s.catches |-> new_label(Counted(c, 2 + i), "catch")],
     finally_label |-> IF s.finally_block # <<>>
                       THEN new_label(Counted(c, 3 + Len(s.catches)), "finally") ELSE ""]

\* "if stmt.finally_block: self.compile_block(stmt.finally_block, ctx)".  A
\* mutated variant, which leaves the finally block out, precedes it.
InlinedFinally_left_out(c, s) == c

InlinedFinally(c, s) ==
    IF s.finally_block # <<>> THEN Block(c, s.finally_block[1], "finally") ELSE c

Goto(c, target) == Emit(c, Branch(c.b, "goto", target, 0), c.type)

\* _compile_try from the labels to the goto after the try block
TryBody(c, s, l) ==
    Goto(InlinedFinally(Labelled(Block(Labelled(Counted(c, 3 + Len(s.catches)
                                                             + Len(s.finally_block)),
                                                 l.try_start),
                                        s.body, "try"),
                                  l.try_end),
                        s),
         l.end_label)

\* "builder._push(); self.store_local(exc_var, builder)"
StoreException(c, name) ==
    Emit(c, store_local(get_local(c, name), _push(c.b, 1)), c.type)

\* "catch_type_idx = builder.cp.add_class(exc_class);
\*  builder.add_exception_handler(try_start, try_end, catch_labels[i], idx)"
Registered(c, r, l, i) ==
    Emit(c, add_exception_handler([c.b EXCEPT !.cp = r.pool], l.try_start, l.try_end,
                                  l.catch_labels[i], r.idx),
         c.type)

\* One round of "for i, catch in enumerate(stmt.catches)"
CatchHandler(c, s, l, i) ==
    Goto(InlinedFinally(Block(StoreException(add_local(Labelled(c, l.catch_labels[i]),
                                                       s.catches[i].name, s.catches[i].type),
                                             s.catches[i].name),
                              s.catches[i].body, "catch"),
                        s),
         l.end_label)

\* "for i, catch_label in enumerate(catch_labels)": the catch-all entries
\* over the catch handlers
RECURSIVE CoverCatches(_, _, _, _)
CoverCatches(b, l, handler, i) ==
    IF i > Len(l.catch_labels) THEN b
    ELSE CoverCatches(add_exception_handler(b, l.catch_labels[i],
                                            IF i + 1 <= Len(l.catch_labels)
                                            THEN l.catch_labels[i + 1] ELSE handler,
                                            handler, 0),
                      l, handler, i + 1)

\* "exc_slot = ctx.next_slot; ctx.next_slot += 1; builder.max_locals = ...;
\*  builder._push(); builder.astore(exc_slot)"
ExceptionSaved(c, handler) ==
    [c EXCEPT !.label_counter = @ + 1,
              !.next_slot = @ + 1,
              !.b = Store(_push([label(@, handler) EXCEPT
                                   !.max_locals = Max(@, c.next_slot + 1)], 1),
                          "astore", c.next_slot, 1)]

\* "builder.aload(exc_slot); builder.athrow()", then the catch-all entries
Rethrown(c, l, handler, exc_slot) ==
    Emit(c, CoverCatches(add_exception_handler(Plain(Load(c.b, "aload", exc_slot, 1),
                                                     "athrow", 1, 0),
                                               l.try_start, l.try_end, handler, 0),
                         l, handler, 1),
         c.type)

\* "Compile finally handler (catches any exception)"
FinallyHandler(c, s, l) ==
    Rethrown(Block(ExceptionSaved(c, new_label(c, "finally_handler")),
                   s.finally_block[1], "finally"),
             l, new_label(c, "finally_handler"), c.next_slot)

\* "for i, catch in enumerate(stmt.catches)" from round i on
RECURSIVE TryCatches(_, _, _, _)
TryCatches(c, s, l, i) ==
    IF i > Len(s.catches) THEN c
    ELSE TryCatches(Registered(CatchHandler(c, s, l, i),
                               add_class(CatchHandler(c, s, l, i).b.cp, s.catches[i].type),
                               l, i),
                    s, l, i + 1)

TryHandlers(c, s, l) == IF s.finally_block # <<>> THEN FinallyHandler(c, s, l) ELSE c

\* _compile_try as one call, for a try statement inside a block
compile_try(c, s) ==
    Labelled(TryHandlers(TryCatches(TryBody(c, s, TryLabels(c, s)), s, TryLabels(c, s), 1),
                         s, TryLabels(c, s)),
             TryLabels(c, s).end_label)

\* The marks of the try and catch bodies, and of the copies of the finally block
Bodies(marks) == {marks[i] : i \in {j \in DOMAIN marks : marks[j].what \in {"try", "catch"}}}

Finallies(marks) == {marks[i] : i \in {j \in DOMAIN marks : marks[j].what = "finally"}}

\* The statement "i = v;"
Assign(v) ==
    Stmt("expr", "", "", <<Expr("assign", "=", 0, "i", <<Expr("lit", "int", v, "", <<>>)>>)>>,
         <<>>)

TryStart(prefix) ==
    compile_block(MethodStart("V"), prefix) @@ [marks |-> <<>>]

TryIdle ==
    tr = [pc |-> "idle", s |-> TryStatement(<<>>, <<>>, <<>>), c |-> TryStart(<<>>),
          l |-> TryLabels(TryStart(<<>>), TryStatement(<<>>, <<>>, <<>>)), i |-> 1]

CondIdle ==
    cond = [pc |-> "idle", e |-> Expr("lit", "boolean", 1, "", <<>>), target |-> "",
           jump_if_true |-> FALSE, c |-> MethodStart("V")]

OthersIdle == PassIdle /\ SortIdle /\ FlowIdle /\ TryIdle /\ CondIdle

\* ------------------------------------------------- constant-pool behaviours
CpNames == {"A", "B"}
CpDescs == {"I"}

CpRoom == Len(cp.tail) < MaxTail /\ cp_out = "none"

\* value in self._entries, by scanning the list rather than asking the cache
Listed(pool, e) ==
    InBase(pool, e) \/ \E i \in 1 .. Len(pool.tail) : pool.tail[i] = e

\* One add_* call.  Its last statement is "return self._add(entry)": mid is
\* the pool that _add receives (after the nested add_* calls), e the entry it
\* is given and r its result.
CpCall(kind, mid, e, r) ==
    /\ cp' = r.pool
    /\ cp_last' = [kind |-> kind, entry |-> e, present |-> Listed(mid, e),
                   before |-> mid, idx |-> r.idx]
    /\ UNCHANGED <<cp_out, NotCp>>

CpAddUtf8 ==
    /\ CpRoom
    /\ \E v \in CpNames \cup CpDescs :
         CpCall("utf8", cp, Entry(TagUtf8, v, 0, 0), add_utf8(cp, v))

\* add_integer, add_float, add_long, add_double
CpAddNumber ==
    /\ CpRoom
    /\ \E t \in {[kind |-> "integer", tag |-> TagInteger, v |-> 1],
                  [kind |-> "integer", tag |-> TagInteger, v |-> 70000],
                  [kind |-> "float", tag |-> TagFloat, v |-> 7],
                  [kind |-> "long", tag |-> TagLong, v |-> 7],
                  [kind |-> "double", tag |-> TagDouble, v |-> 7]} :
         CpCall(t.kind, cp, Entry(t.tag, "", t.v, 0), Add(cp, Entry(t.tag, "", t.v, 0)))

CpAddClass ==
    /\ CpRoom
    /\ \E v \in CpNames :
         LET u == add_utf8(cp, v)
         IN CpCall("class", u.pool, Entry(TagClass, "", u.idx, 0), add_class(cp, v))

CpAddString ==
    /\ CpRoom
    /\ \E v \in CpNames :
         LET u == add_utf8(cp, v)
         IN CpCall("string", u.pool, Entry(TagString, "", u.idx, 0), add_string(cp, v))

CpAddNameAndType ==
    /\ CpRoom
    /\ \E n \in CpNames, d \in CpDescs :
         LET x == add_utf8(cp, n)
             y == add_utf8(x.pool, d)
         IN CpCall("name_and_type", y.pool, Entry(TagNameAndType, "", x.idx, y.idx),
                   add_name_and_type(cp, n, d))

\* add_fieldref, add_methodref, add_interface_methodref
CpAddMember ==
    /\ CpRoom
    /\ \E c \in CpNames, n \in CpNames, d \in CpDescs,
          tag \in {TagFieldref, TagMethodref, TagInterfaceMethodref} :
         LET x == add_class(cp, c)
             y == add_name_and_type(x.pool, n, d)
         IN CpCall("member", y.pool, Entry(tag, "", x.idx, y.idx), AddRef(cp, tag, c, n, d))

CpWrite ==
    /\ cp_out = "none"
    /\ cp_out' = IF CountFits(cp) THEN "written" ELSE "struct.error"
    /\ UNCHANGED <<cp, cp_last, NotCp>>

CpInit ==
    /\ \E n \in {0} \cup ((U2Max - NearLimit) .. (U2Max - 1)) :
         cp = [EmptyPool EXCEPT !.base = n]
    /\ cp_last = [kind |-> "none", entry |-> Hole, present |-> FALSE,
                 before |-> EmptyPool, idx |-> 0]
    /\ cp_out = "none"
    /\ BbIdle /\ ResIdle /\ GenIdle /\ DrvIdle /\ OthersIdle

CpNext ==
    \/ CpAddUtf8 \/ CpAddNumber \/ CpAddClass \/ CpAddString
    \/ CpAddNameAndType \/ CpAddMember \/ CpWrite

SpecCP == CpInit /\ [][CpNext]_vars

\* ------------------------------------------------------ builder behaviours
BbLabels == {"L1", "L2"}

BbRoom == Len(bb.code) < MaxCode /\ bb_out.status = "none"

BbStep(b) == bb' = b /\ UNCHANGED <<bb_out, NotBb>>

BbConst ==
    /\ BbRoom
    /\ \/ \E v \in {1, 40000} : BbStep(iconst(bb, v))
       \/ \E v \in {7} : BbStep(lconst(bb, v))

BbLoad ==
    /\ BbRoom
    /\ \/ BbStep(Load(bb, "iload", 4, 1))
       \/ BbStep(Load(bb, "lload", 0, 2))

BbStore ==
    /\ BbRoom
    /\ \/ BbStep(Store(bb, "istore", 0, 1))
       \/ BbStep(Store(bb, "lstore", 4, 2))

\* iadd, dup, pop, return
BbPlain ==
    /\ BbRoom
    /\ \/ BbStep(Plain(bb, "iadd", 2, 1))
       \/ BbStep(Plain(bb, "dup", 1, 2))
       \/ BbStep(Plain(bb, "pop", 1, 0))
       \/ BbStep(Plain(bb, "return", 0, 0))

BbBranch ==
    /\ BbRoom
    /\ \/ BbStep(Branch(bb, "ifeq", "L1", 1))
       \/ BbStep(Branch(bb, "if_icmplt", "L2", 2))
       \/ \E l \in BbLabels : BbStep(Branch(bb, "goto", l, 0))

BbInvoke ==
    /\ BbRoom
    /\ \E sig \in {[params |-> <<"J">>, ret |-> "I"]} :
         LET a == ArgSlots(sig.params)
             r == RetSlots(sig.ret)
         IN \/ BbStep(invokevirtual(bb, "A", "m", sig, a, r))
            \/ BbStep(invokespecial(bb, "A", "m", sig, a, r))
            \/ BbStep(invokestatic(bb, "A", "m", sig, a, r))
            \/ BbStep(invokeinterface(bb, "A", "m", sig, a + 1, r))

BbLookupswitch ==
    /\ BbRoom
    /\ \E cases \in {<<>>, <<[match |-> 2, label |-> "L2"],
                             [match |-> 1, label |-> "L1"]>>} :
         BbStep(lookupswitch(bb, "L1", cases))

BbLabel ==
    /\ bb_out.status = "none"
    /\ \E l \in BbLabels : BbStep(label(bb, l))

BbAddExceptionHandler ==
    /\ bb_out.status = "none"
    /\ Len(bb.exception_handlers) < MaxHandlers
    /\ \E h \in BbLabels :
         BbStep(add_exception_handler(bb, "L1", "L1", h, 0))

BbBuild ==
    /\ bb_out.status = "none"
    /\ bb_out' = build(bb)
    /\ UNCHANGED <<bb, NotBb>>

BbInit == BbIdle /\ CpIdle /\ ResIdle /\ GenIdle /\ DrvIdle /\ OthersIdle

BbNext ==
    \/ BbConst \/ BbLoad \/ BbStore \/ BbPlain \/ BbBranch \/ BbInvoke
    \/ BbLookupswitch \/ BbLabel \/ BbAddExceptionHandler \/ BbBuild

SpecBB == BbInit /\ [][BbNext]_vars

\* --------------------------------------------------- resolution behaviours
\* The class being compiled is A.  The classpath holds a class Lib, whose
\* methods are those read from its class file, and an interface Ifc that Lib
\* implements.
Method(params, is_varargs) ==
    [name |-> "f", params |-> params, ret |-> "V", is_static |-> FALSE,
     is_varargs |-> is_varargs]

ResParams == {<<"I">>, <<"J">>, <<Object>>, <<"[I">>}

\* The parameter lists of the overloads of a behaviour whose calls have two
\* arguments, and the lists a behaviour draws from (g.arity is fixed at Init).
ResPairs == {<<"I", "J">>, <<"J", "I">>, <<Object, Object>>}

ResParamsOf(g) == IF g.arity = 1 THEN ResParams ELSE ResPairs

ResArgsOf(g) ==
    IF g.arity = 1 THEN {<<"B">>, <<"I">>, <<"java/lang/String">>}
    ELSE {<<"I", "I">>, <<"B", "J">>}

LibMethods(g) == (CHOOSE c \in g.classpath : c.name = "Lib").methods

Declared(methods, params) == \E i \in 1 .. Len(methods) : methods[i].params = params

\* _register_local_method: one more overload of f in the class being compiled
ResRegisterLocal ==
    /\ Len(res.local_methods) < MaxOverloads
    /\ \E params \in ResParamsOf(res) :
         /\ ~Declared(res.local_methods, params)
         /\ res' = [res EXCEPT !.local_methods = Append(@, Method(params, params = <<"[I">>))]
    /\ UNCHANGED <<res_last, NotRes>>

\* One more method in the class file of Lib, in class-file order.
ResReadMethod ==
    /\ Len(LibMethods(res)) < MaxOverloads
    /\ \E params \in ResParamsOf(res) :
         /\ ~Declared(LibMethods(res), params)
         /\ res' = [res EXCEPT !.classpath =
                       {IF c.name = "Lib"
                        THEN [c EXCEPT !.methods = Append(@, Method(params, FALSE))]
                        ELSE c : c \in @}]
    /\ UNCHANGED <<res_last, NotRes>>

\* A call f(x) or f(x, y) on the class being compiled or on the classpath class.
ResFind ==
    /\ \E class_name \in {"A", "Lib"}, arg_types \in ResArgsOf(res) :
         res_last' = [where |-> class_name, arg_types |-> arg_types,
                      table |-> IF class_name = "A" THEN res.local_methods
                                ELSE LibMethods(res),
                      found |-> _find_method(res, class_name, "f", arg_types, 3)]
    /\ UNCHANGED <<res, NotRes>>

ResInit ==
    /\ \E sup \in {Object, "Lib"}, arity \in {1, 2} :
         res = [class_name |-> "A", super_class_name |-> sup, local_methods |-> <<>>,
                arity |-> arity,
                classpath |->
                  {[name |-> "Lib", super_class |-> Object, interfaces |-> <<"Ifc">>,
                    is_interface |-> FALSE, methods |-> <<>>],
                   [name |-> "Ifc", super_class |-> Object, interfaces |-> <<>>,
                    is_interface |-> TRUE, methods |-> <<Method(<<Object>>, FALSE)>>]}]
    /\ res_last = [where |-> "none", arg_types |-> <<>>, table |-> <<>>, found |-> <<>>]
    /\ CpIdle /\ BbIdle /\ GenIdle /\ DrvIdle /\ OthersIdle

ResNext == ResRegisterLocal \/ ResReadMethod \/ ResFind

SpecRes == ResInit /\ [][ResNext]_vars

\* ----------------------------------------------------- compiler behaviours
\* The expressions and statements offered to the compiler.
GenLeaf ==
    [one |-> Expr("lit", "int", 1, "", <<>>), five |-> Expr("lit", "long", 5, "", <<>>),
     i |-> Expr("id", "", 0, "i", <<>>), l |-> Expr("id", "", 0, "l", <<>>),
     z |-> Expr("id", "", 0, "z", <<>>), g |-> Expr("id", "", 0, "g", <<>>)]

GenConds ==
    {GenLeaf.z,
     Expr("bin", "<", 0, "", <<GenLeaf.i, GenLeaf.one>>),
     Expr("bin", "<", 0, "", <<GenLeaf.l, GenLeaf.five>>),
     Expr("bin", "&&", 0, "", <<GenLeaf.z, GenLeaf.z>>),
     Expr("bin", "||", 0, "", <<GenLeaf.z, GenLeaf.z>>)}

GenExprs ==
    {GenLeaf.one, GenLeaf.l, GenLeaf.g,
     Expr("bin", "+", 0, "", <<GenLeaf.i, GenLeaf.one>>),
     Expr("bin", "+", 0, "", <<GenLeaf.l, GenLeaf.five>>),
     Expr("bin", "<", 0, "", <<GenLeaf.i, GenLeaf.one>>),
     Expr("bin", "&&", 0, "", <<GenLeaf.z, GenLeaf.z>>),
     Expr("assign", "=", 0, "i", <<GenLeaf.one>>),
     Expr("assign", "=", 0, "l", <<GenLeaf.five>>),
     Expr("assign", "=", 0, "g", <<GenLeaf.five>>),
     Expr("assign", "=", 0, "q", <<GenLeaf.one>>),
     Expr("call", "", 0, "foo", <<>>),
     Expr("call", "", 0, "bar", <<GenLeaf.i>>),
     Expr("call", "", 0, "baz", <<>>)}
      \cup {Expr("ternary", "", 0, "", <<cnd, GenLeaf.one, GenLeaf.i>>) : cnd \in GenConds}

GenLocals ==
    {Stmt("local", "I", "x", <<>>, <<>>),
     Stmt("local", "I", "x", <<GenLeaf.one>>, <<>>),
     Stmt("local", "J", "y", <<GenLeaf.five>>, <<>>),
     Stmt("local", "J", "y", <<GenLeaf.g>>, <<>>)}
      \cup {Stmt("local", "Z", "w", <<e>>, <<>>) : e \in GenConds}

GenReturns(return_type) ==
    IF return_type = "V" THEN {Stmt("return", "", "", <<>>, <<>>)}
    ELSE {Stmt("return", "", "", <<e>>, <<>>) :
             e \in {x \in GenExprs : x.k \in {"lit", "ternary"} /\ x.op # "long"}}

GenIfs ==
    LET then == Stmt("expr", "", "", <<Expr("assign", "=", 0, "i", <<GenLeaf.one>>)>>, <<>>)
        else == Stmt("local", "J", "y", <<GenLeaf.five>>, <<>>)
    IN {Stmt("if", "", "", <<cnd>>, kids) : cnd \in GenConds, kids \in {<<then>>, <<then, else>>}}

GenRoom == gen.n < MaxStmts /\ gen.c.error = "" /\ gen_out.status = "none"

\* One statement of the body has been compiled, leaving the context c.  A
\* CompileError ends compile_method.
GenStep(c) ==
    /\ gen' = [c |-> c, n |-> gen.n + 1]
    /\ gen_out' = IF c.error # "" THEN [status |-> "CompileError", attr |-> <<>>]
                  ELSE gen_out
    /\ UNCHANGED NotGen

GenLocalVariableDeclaration ==
    /\ GenRoom
    /\ \E s \in GenLocals : GenStep(compile_statement(gen.c, s))
    /\ gen_last' = [gen_last EXCEPT !.seen = FALSE]

\* An expression statement; v is the context as compile_expression leaves it,
\* recorded with the place and the depth at which the expression's code begins.
GenExpression(v) ==
    /\ GenStep(ExpressionStatement(v))
    /\ gen_last' = [seen |-> TRUE, from |-> Len(gen.c.b.code) + 1,
                    before |-> gen.c.b.current_stack, c |-> v]

GenExpressionStatement ==
    /\ GenRoom
    /\ \E e \in GenExprs : GenExpression(compile_expression(gen.c, e))

GenReturnStatement ==
    /\ GenRoom
    /\ \E s \in GenReturns(gen.c.return_type) : GenStep(compile_statement(gen.c, s))
    /\ gen_last' = [gen_last EXCEPT !.seen = FALSE]

GenIfStatement ==
    /\ GenRoom
    /\ \E s \in GenIfs : GenStep(compile_statement(gen.c, s))
    /\ gen_last' = [gen_last EXCEPT !.seen = FALSE]

\* The end of compile_method: the implicit return of a void method, build.
GenFinish ==
    /\ gen.c.error = "" /\ gen_out.status = "none"
    /\ gen' = [gen EXCEPT !.c = IF @.return_type = "V"
                                 THEN Emit(@, Plain(@.b, "return", 0, 0), @.type) ELSE @]
    /\ gen_out' = build(gen'.c.b)
    /\ UNCHANGED <<gen_last, NotGen>>

GenInit ==
    /\ \E return_type \in {"V", "I"} :
         /\ gen = [c |-> MethodStart(return_type), n |-> 0]
         /\ gen_last = [seen |-> FALSE, from |-> 0, before |-> 0, c |-> MethodStart(return_type)]
    /\ gen_out = [status |-> "none", attr |-> <<>>]
    /\ CpIdle /\ BbIdle /\ ResIdle /\ DrvIdle /\ OthersIdle

GenNext ==
    \/ GenLocalVariableDeclaration \/ GenExpressionStatement \/ GenReturnStatement
    \/ GenIfStatement \/ GenFinish

SpecGen == GenInit /\ [][GenNext]_vars

\* -------------------------------------------------------- driver behaviours
\* A type declaration of the AST: its kind, name, annotations, whether it is
\* declared abstract or static, the types it implements (extends, for an
\* interface), its fields and methods and its nested types; the class it
\* extends, its constructors and the number of its initializer blocks.
TypeDecl(kind, name, annotations, is_abstract, implements, fields, methods, body) ==
    [kind |-> kind, name |-> name, annotations |-> annotations, is_abstract |-> is_abstract,
     is_static |-> FALSE, implements |-> implements, fields |-> fields, methods |-> methods,
     body |-> body, extends |-> "", constructors |-> <<>>, initializers |-> 0]

Member(name, descriptor, abstract) ==
    [name |-> name, descriptor |-> descriptor, abstract |-> abstract, lambda |-> FALSE]

Annotated(name, arguments) == [name |-> name, arguments |-> arguments]

\* class A { int f; void m() {} }
DrvPlain ==
    TypeDecl("class", "A", <<>>, FALSE, <<>>, <<Member("f", "I", FALSE)>>,
             <<Member("m", "()V", FALSE)>>, <<>>)

\* @Deprecated class A implements Runnable { void run() {} }
DrvRunner ==
    TypeDecl("class", "A", <<Annotated("Deprecated", <<>>)>>, FALSE, <<"Runnable">>, <<>>,
             <<Member("run", "()V", FALSE)>>, <<>>)

\* @SuppressWarnings("x") class B {}
DrvQuiet ==
    TypeDecl("class", "B", <<Annotated("SuppressWarnings", <<[name |-> "", value |-> "x"]>>)>>,
             FALSE, <<>>, <<>>, <<>>, <<>>)

\* @SuppressWarnings("value") class B { int value; }
DrvValued ==
    TypeDecl("class", "B",
             <<Annotated("SuppressWarnings", <<[name |-> "", value |-> "value"]>>)>>,
             FALSE, <<>>, <<Member("value", "I", FALSE)>>, <<>>, <<>>)

\* class C { abstract int area(); }
DrvShape ==
    TypeDecl("class", "C", <<>>, FALSE, <<>>, <<>>, <<Member("area", "()I", TRUE)>>, <<>>)

\* interface J { void m(); }
DrvInterface ==
    TypeDecl("interface", "J", <<>>, FALSE, <<>>, <<>>, <<Member("m", "()V", TRUE)>>, <<>>)

\* class Outer { interface I { void m(); } }
DrvOuterInterface ==
    TypeDecl("class", "Outer", <<>>, FALSE, <<>>, <<>>, <<>>,
             <<TypeDecl("interface", "I", <<>>, FALSE, <<>>, <<>>,
                        <<Member("m", "()V", TRUE)>>, <<>>)>>)

\* class Outer { class Inner {} }
DrvOuterInner ==
    TypeDecl("class", "Outer", <<>>, FALSE, <<>>, <<>>, <<>>,
             <<TypeDecl("class", "Inner", <<>>, FALSE, <<>>, <<>>, <<>>, <<>>)>>)

\* interface K { void m(); default void d() {} }
DrvDefault ==
    TypeDecl("interface", "K", <<>>, FALSE, <<>>, <<>>,
             <<Member("m", "()V", TRUE), Member("d", "()V", FALSE)>>, <<>>)

\* class L { void m() { Runnable r = () -> {}; } }
DrvLambda ==
    TypeDecl("class", "L", <<>>, FALSE, <<>>, <<>>,
             <<[Member("m", "()V", FALSE) EXCEPT !.lambda = TRUE]>>, <<>>)

\* The compilation units the driver is given: a package declaration or none,
\* and the type declarations of the file.
DrvUnits ==
    [package : {<<>>, <<"p">>},
     types : {<<DrvPlain>>, <<DrvRunner>>, <<DrvQuiet>>, <<DrvValued>>, <<DrvInterface, DrvPlain>>,
              <<DrvPlain, DrvShape>>, <<DrvOuterInterface>>, <<DrvOuterInner>>,
              <<DrvDefault, DrvPlain>>, <<DrvLambda>>}]

\* ClassPath.__init__: no archive is open.
ClassPath == [_zip_files |-> <<>>, error |-> ""]

\* ClassPath.add_path: an archive is opened and kept, a directory is kept, any
\* other path raises ValueError.
add_path(cp0, entry) ==
    IF entry.kind = "jar" THEN [cp0 EXCEPT !._zip_files = Append(@, entry.path)]
    ELSE IF entry.kind = "dir" THEN cp0
    ELSE [cp0 EXCEPT !.error = "ValueError"]

\* "for entry in ...: classpath.add_path(entry)", left at the first exception
RECURSIVE AddPaths(_, _)
AddPaths(cp0, entries) ==
    IF entries = <<>> \/ cp0.error # "" THEN cp0
    ELSE AddPaths(add_path(cp0, Head(entries)), Tail(entries))

\* ClassPath.close: every archive of _zip_files is closed.
close(zip_files) == <<>>

\* "with open(class_path, 'wb') as f: f.write(bytecode)" for each class
WriteAll(class_files) ==
    [i \in DOMAIN class_files |->
        [path |-> class_files[i].name \o ".class", bytes |-> class_files[i].bytes]]

Overwritten(disk, writes) ==
    {f \in disk : \A i \in DOMAIN writes : writes[i].path # f.path}
    \cup {writes[i] : i \in DOMAIN writes}

\* One round of the loop of compile_command after codegen.compile(ast): the
\* class files are written, or the exception is reported and the process
\* exits with status 1.
DrvCompiled(out, writes) ==
    /\ drv' = IF out.error # "" THEN [drv EXCEPT !.status = "exit"]
              ELSE [drv EXCEPT !.files = @ + 1, !.disk = Overwritten(@, writes),
                               !.total_classes = @ + Len(writes)]
    /\ drv_last' = [seen |-> TRUE, error |-> out.error, produced |-> out.produced,
                    returned |-> out.returned, wrote |-> writes, before |-> drv.disk]
    /\ UNCHANGED NotDrv

DrvReturned(out) ==
    DrvCompiled(out, IF out.error # "" THEN <<>> ELSE WriteAll(out.returned))

DrvCompileFile ==
    /\ drv.status = "running" /\ drv.files < MaxFiles
    /\ \E unit \in DrvUnits : DrvReturned(compile(unit))

\* "if not path.exists(): ... sys.exit(1)"
DrvFileNotFound ==
    /\ drv.status = "running" /\ drv.files < MaxFiles
    /\ drv' = [drv EXCEPT !.status = "exit"]
    /\ drv_last' = [drv_last EXCEPT !.seen = FALSE]
    /\ UNCHANGED NotDrv

\* The end of the loop: classpath.close() and the summary line.
DrvFinish ==
    /\ drv.status = "running"
    /\ drv' = [drv EXCEPT !.status = "done", !.zip_files = close(@)]
    /\ drv_last' = [drv_last EXCEPT !.seen = FALSE]
    /\ UNCHANGED NotDrv

\* The classpath entries of the command line: a jar, a directory, a path
\* that is neither.
DrvEntries ==
    {<<>>, <<[path |-> "lib.jar", kind |-> "jar"]>>,
     <<[path |-> "classes", kind |-> "dir"], [path |-> "lib.jar", kind |-> "jar"]>>,
     <<[path |-> "lib.jar", kind |-> "jar"], [path |-> "nowhere", kind |-> "none"]>>}

\* compile_command before the loop: the ClassPath with rt.jar unless --no-rt
\* is given or rt.jar is not found, the entries of --classpath, the output
\* directory.  The ValueError of add_path is not caught.
DrvAddedPaths(cp0) ==
    /\ drv' = [drv EXCEPT !.status = IF cp0.error # "" THEN "crash" ELSE "running",
                          !.zip_files = cp0._zip_files]
    /\ drv_last' = [drv_last EXCEPT !.seen = FALSE]
    /\ UNCHANGED NotDrv

DrvClasspath ==
    /\ drv.status = "start"
    /\ \E no_rt \in BOOLEAN, rt_jar \in BOOLEAN, entries \in DrvEntries :
         DrvAddedPaths(AddPaths(IF ~no_rt /\ rt_jar
                                THEN add_path(ClassPath, [path |-> "rt.jar", kind |-> "jar"])
                                ELSE ClassPath,
                                entries \o <<[path |-> "out", kind |-> "dir"]>>))

DrvInit ==
    /\ drv = [status |-> "start", files |-> 0, disk |-> {}, total_classes |-> 0,
              zip_files |-> <<>>]
    /\ drv_last = [seen |-> FALSE, error |-> "", produced |-> <<>>, returned |-> <<>>,
                   wrote |-> <<>>, before |-> {}]
    /\ CpIdle /\ BbIdle /\ ResIdle /\ GenIdle /\ OthersIdle

DrvNext == DrvClasspath \/ DrvCompileFile \/ DrvFileNotFound \/ DrvFinish

SpecDriver == DrvInit /\ [][DrvNext]_vars

\* ------------------------------------------------- compile-pass behaviours
\* class Base {}
PassBase == TypeDecl("class", "Base", <<>>, FALSE, <<>>, <<>>, <<>>, <<>>)

\* class In { { } In() { super(); } }
PassIn ==
    [TypeDecl("class", "In", <<>>, FALSE, <<>>, <<>>, <<>>, <<>>) EXCEPT
        !.initializers = 1, !.constructors = <<"super">>]

\* interface J { void m(); }
PassJ == TypeDecl("interface", "J", <<>>, FALSE, <<>>, <<>>, <<Member("m", "()V", TRUE)>>, <<>>)

\* static class Side { int s; Side() {} }
PassSide ==
    [TypeDecl("class", "Side", <<>>, FALSE, <<>>, <<Member("s", "I", FALSE)>>, <<>>, <<>>) EXCEPT
        !.is_static = TRUE, !.constructors = <<"plain">>]

\* class Mid { int x; <In> <J> }
PassMid ==
    TypeDecl("class", "Mid", <<>>, FALSE, <<>>, <<Member("x", "I", FALSE)>>, <<>>,
             <<PassIn, PassJ>>)

\* class Outer extends Base { void m() {} <Mid> <Side> }
PassOuter ==
    [TypeDecl("class", "Outer", <<>>, FALSE, <<>>, <<>>, <<Member("m", "()V", FALSE)>>,
              <<PassMid, PassSide>>) EXCEPT !.extends = "Base"]

\* class Host { <J> <In> }
PassHost == TypeDecl("class", "Host", <<>>, FALSE, <<>>, <<>>, <<>>, <<PassJ, PassIn>>)

\* The compilation units of a pass.
PassUnits ==
    [package : {<<>>, <<"p">>},
     types : {<<PassBase, PassOuter>>, <<PassOuter>>, <<PassHost, PassBase>>,
              <<PassJ, PassHost>>, <<PassMid>>}]

\* The innermost call of compile_class in progress.
Top == gp.stack[Len(gp.stack)]

\* self._cache_compiled_class(name, bytecode)
StoreInCache(s, class) ==
    IF _cache_compiled_class(class.bytes) # "" THEN [s EXCEPT !.status = "CompileError"]
    ELSE [s EXCEPT !.cache = CachePut(@, class.name, read(class.bytes)),
                   !.log = Append(@, Event("cache", class.name))]

\* A call compile_class(cls, outer_class) up to the saved state.
Called(s, cls, outer_class, g) ==
    [s EXCEPT !.g = g,
              !.stack = Append(@, Frame(cls, outer_class, Saved(g))),
              !.log = Append(@, Event("begin", Str(g.class_name)))]

\* "for type_decl in unit.types: ... self.compile_class(type_decl, ...)"
PassCompileClass ==
    /\ gp.status = "compiling" /\ gp.stack = <<>> /\ gp.ret = <<>>
    /\ gp.types # <<>> /\ Head(gp.types).kind = "class"
    /\ gp' = Called([gp EXCEPT !.types = Tail(@)], Head(gp.types), gp.package_prefix,
                    EnterClass(gp.g, Head(gp.types), gp.package_prefix))
    /\ UNCHANGED NotPass

\* "nested_results = self.compile_class(member, outer_class=saved_class_name)"
PassCompileNestedClass ==
    /\ gp.status = "compiling" /\ gp.stack # <<>> /\ gp.ret = <<>>
    /\ Top.pc = "nested" /\ Top.todo # <<>> /\ Head(Top.todo).kind = "class"
    /\ gp' = Called([gp EXCEPT !.stack[Len(gp.stack)].todo = Tail(@)], Head(Top.todo),
                    Top.saved.class_name,
                    EnterClass(gp.g, Head(Top.todo), Top.saved.class_name))
    /\ UNCHANGED NotPass

\* A mutated loop body, which leaves the nested interface out of the cache.
NestedInterfaceStored_uncached(s, g, class) ==
    [s EXCEPT !.g = g,
              !.stack[Len(s.stack)].todo = Tail(@),
              !.stack[Len(s.stack)].nested = Put(@, class),
              !.log = @ \o <<Event("begin", Str(g.class_name)), Event("emit", class.name)>>]

\* "nested_classes[nested_name] = nested_bytecode;
\*  self._cache_compiled_class(nested_name, nested_bytecode)"
NestedInterfaceStored(s, g, class) ==
    StoreInCache([s EXCEPT !.g = g,
                           !.stack[Len(s.stack)].todo = Tail(@),
                           !.stack[Len(s.stack)].nested = Put(@, class),
                           !.log = @ \o <<Event("begin", Str(g.class_name)),
                                          Event("emit", class.name)>>],
                 class)

NestedInterface(s, g, nested_name) ==
    NestedInterfaceStored(s, g, Emitted(nested_name, g.class_file, <<>>, FALSE))

\* "nested_bytecode = self.compile_interface(member, outer_class=saved_class_name)"
PassCompileNestedInterface ==
    /\ gp.status = "compiling" /\ gp.stack # <<>> /\ gp.ret = <<>>
    /\ Top.pc = "nested" /\ Top.todo # <<>> /\ Head(Top.todo).kind = "interface"
    /\ gp' = NestedInterface(gp, EnterInterface(gp.g, Head(Top.todo), Top.saved.class_name),
                             Str(Top.saved.class_name \o <<"$", Head(Top.todo).name>>))
    /\ UNCHANGED NotPass

\* "info = reader.read(); results[info.name] = class_bytes;
\*  self._cache_compiled_class(info.name, class_bytes)"
InterfaceRead(s, g, info) ==
    IF info.error # "" THEN [s EXCEPT !.g = g, !.status = info.error]
    ELSE StoreInCache([s EXCEPT !.g = g,
                                !.types = Tail(@),
                                !.results = Put(@, Emitted(info.name, g.class_file, <<>>, FALSE)),
                                !.log = @ \o <<Event("begin", Str(g.class_name)),
                                               Event("emit", info.name)>>],
                      Emitted(info.name, g.class_file, <<>>, FALSE))

\* "for type_decl in unit.types: ... self.compile_interface(type_decl, ...)"
PassCompileInterface ==
    /\ gp.status = "compiling" /\ gp.stack = <<>> /\ gp.ret = <<>>
    /\ gp.types # <<>> /\ Head(gp.types).kind = "interface"
    /\ gp' = InterfaceRead(gp, EnterInterface(gp.g, Head(gp.types), gp.package_prefix),
                           read(compile_interface(Head(gp.types), gp.package_prefix)))
    /\ UNCHANGED NotPass

\* "Restore state after compiling nested classes"
PassRestore ==
    /\ gp.status = "compiling" /\ gp.stack # <<>> /\ gp.ret = <<>>
    /\ Top.pc = "nested" /\ Top.todo = <<>>
    /\ gp' = [gp EXCEPT !.g = Restored(gp.g, Top.saved),
                        !.stack[Len(gp.stack)].pc = "members"]
    /\ UNCHANGED NotPass

\* nested_classes.update(nested_results)
RECURSIVE PutAll(_, _)
PutAll(results, classes) ==
    IF classes = <<>> THEN results ELSE PutAll(Put(results, Head(classes)), Tail(classes))

\* The return of compile_class to its caller, which is compile or the loop
\* over the nested types of the enclosing class.
Popped(s, result) ==
    [s EXCEPT !.stack = IF Len(@) = 1 THEN <<>>
                        ELSE [SubSeq(@, 1, Len(@) - 1) EXCEPT
                                 ![Len(@) - 1].nested = PutAll(@, result)],
              !.ret = result]

\* "result = {self.class_name: self.class_file.to_bytes()}; result.update(nested_classes)"
Result(s, f, g, class) ==
    Popped([s EXCEPT !.g = [g EXCEPT !.class_file = class.cf],
                     !.log = Append(@, Event("emit", class.name))],
           <<class>> \o f.nested)

\* compile_class from the third pass to its return.
Finished(s, f, g, built) ==
    IF built.error # "" THEN [s EXCEPT !.g = g, !.status = built.error]
    ELSE IF (\E i \in DOMAIN f.cls.methods : f.cls.methods[i].abstract) /\ ~f.cls.is_abstract
    THEN [s EXCEPT !.g = g, !.status = "CompileError"]
    ELSE Result(s, f, g, Emitted(Str(g.class_name), WithMembers(g, f.cls, f.outer_class, built),
                                 built.codes, Len(s.stack) > 1 /\ ~f.cls.is_static))

Members(s, f, g) == Finished(s, f, g, Constructors(g, s.cache, f.cls))

\* compile_class after the restore.
PassMembers ==
    /\ gp.status = "compiling" /\ gp.stack # <<>>
    /\ Top.pc = "members"
    /\ gp' = Members(gp, Top, Inner(gp.g, Top.cls, Top.outer_class))
    /\ UNCHANGED NotPass

\* "for name, bytecode in nested_results.items(): self._cache_compiled_class(...)"
\* and, in compile, "results[name] = bytecode" before it.
PassCache ==
    /\ gp.status = "compiling" /\ gp.ret # <<>>
    /\ gp' = StoreInCache([gp EXCEPT !.ret = Tail(@),
                                     !.results = IF gp.stack = <<>> THEN Put(@, Head(gp.ret))
                                                 ELSE @],
                          Head(gp.ret))
    /\ UNCHANGED NotPass

\* "return results"
PassReturn ==
    /\ gp.status = "compiling" /\ gp.stack = <<>> /\ gp.ret = <<>> /\ gp.types = <<>>
    /\ gp' = [gp EXCEPT !.status = "returned"]
    /\ UNCHANGED NotPass

PassInit ==
    /\ \E unit \in PassUnits : gp = PassStart(unit)
    /\ CpIdle /\ BbIdle /\ ResIdle /\ GenIdle /\ DrvIdle /\ SortIdle /\ FlowIdle /\ TryIdle
    /\ CondIdle

PassNext ==
    \/ PassCompileClass
    \/ PassCompileNestedClass
    \/ PassCompileNestedInterface
    \/ PassCompileInterface
    \/ PassRestore
    \/ PassMembers
    \/ PassCache
    \/ PassReturn

SpecPass == PassInit /\ [][PassNext]_vars

\* --------------------------------------------- compilation-order behaviours
\* A.java: class A extends B {}          B.java: class B {}
\* J.java: interface J extends I {}      I.java: interface I {}
\* p/Impl.java: package p; import q.Base; class Impl extends Base implements Shape {}
\* p/Shape.java: package p; interface Shape {}
\* q/Base.java: package q; public class Base {}
SortFiles ==
    {SourceFile("A.java", "", <<>>, <<DeclaredType("class", "A", <<"B">>, <<>>)>>),
     SourceFile("B.java", "", <<>>, <<DeclaredType("class", "B", <<>>, <<>>)>>),
     SourceFile("J.java", "", <<>>, <<DeclaredType("interface", "J", <<"I">>, <<>>)>>),
     SourceFile("I.java", "", <<>>, <<DeclaredType("interface", "I", <<>>, <<>>)>>),
     SourceFile("p/Impl.java", "p", <<Import("q", "Base", FALSE)>>,
                <<DeclaredType("class", "Impl", <<"Base">>, <<"Shape">>)>>),
     SourceFile("p/Shape.java", "p", <<>>, <<DeclaredType("interface", "Shape", <<>>, <<>>)>>),
     SourceFile("q/Base.java", "q", <<>>, <<DeclaredType("class", "Base", <<>>, <<>>)>>)}

\* The files of a command line: up to MaxSorted different files in any order.
SortInputs ==
    {files \in UNION {[1 .. n -> SortFiles] : n \in 1 .. MaxSorted} :
        \A i, j \in DOMAIN files : i # j => files[i] # files[j]}

\* "if len(file_paths) > 1" is false: the files are compiled as given.
SortSingle ==
    /\ srt.pc = "start" /\ Len(srt.files) <= 1
    /\ srt' = [srt EXCEPT !.pc = "compiling", !.file_paths = PathsOf(srt.files)]
    /\ UNCHANGED NotSort

\* _topological_sort up to the initial queue of Kahn's algorithm.
Queued(s, in_degree) ==
    [s EXCEPT !.pc = "kahn",
              !.in_degree = in_degree,
              !.queue = SelectSeq(PathsOf(s.files), LAMBDA p : in_degree[p] = 0)]

SortBuild ==
    /\ srt.pc = "start" /\ Len(srt.files) > 1
    /\ srt' = Queued(srt, [p \in {srt.files[i].path : i \in DOMAIN srt.files} |->
                             InDegree(CHOOSE f \in SortFiles : f.path = p,
                                      TypeToFile({}, srt.files))])
    /\ UNCHANGED NotSort

\* One round of "while queue"
Popped1(s, k) ==
    [s EXCEPT !.result = Append(@, Head(s.queue)), !.in_degree = k.in_degree,
              !.queue = k.queue]

SortPop ==
    /\ srt.pc = "kahn" /\ srt.queue # <<>>
    /\ srt' = Popped1(srt, Released([in_degree |-> srt.in_degree, queue |-> Tail(srt.queue)],
                                    Adjacent(Head(srt.queue), srt.files,
                                             TypeToFile({}, srt.files))))
    /\ UNCHANGED NotSort

\* "Check for cycles" and the return to compile_command
SortReturn ==
    /\ srt.pc = "kahn" /\ srt.queue = <<>>
    /\ srt' = [srt EXCEPT !.pc = "compiling",
                          !.file_paths = IF Len(srt.result) # Len(srt.files)
                                         THEN PathsOf(srt.files) ELSE srt.result]
    /\ UNCHANGED NotSort

\* One round of "for path in file_paths": the file is compiled.
SortCompile ==
    /\ srt.pc = "compiling" /\ Len(srt.compiled) < Len(srt.file_paths)
    /\ srt' = [srt EXCEPT !.compiled = Append(@, srt.file_paths[Len(srt.compiled) + 1])]
    /\ UNCHANGED NotSort

SortDone ==
    /\ srt.pc = "compiling" /\ Len(srt.compiled) = Len(srt.file_paths)
    /\ srt' = [srt EXCEPT !.pc = "done"]
    /\ UNCHANGED NotSort

SortInit ==
    /\ \E files \in SortInputs :
         srt = [pc |-> "start", files |-> files, in_degree |-> <<>>, queue |-> <<>>,
                result |-> <<>>, file_paths |-> <<>>, compiled |-> <<>>]
    /\ PassIdle /\ CpIdle /\ BbIdle /\ ResIdle /\ GenIdle /\ DrvIdle /\ FlowIdle /\ TryIdle
    /\ CondIdle

SortNext == SortSingle \/ SortBuild \/ SortPop \/ SortReturn \/ SortCompile \/ SortDone

SpecSort == SortInit /\ [][SortNext]_vars

\* ------------------------------------------------- break behaviours
\* Each step compiles the next piece of a method body: the head of a loop or
\* of a switch, the next case, an unlabeled break, or the end of the
\* innermost open loop or switch.
FlowRoom == fl.error = "" /\ fl.n < MaxFlow

FlowStep(c) ==
    /\ fl' = [c EXCEPT !.n = fl.n + 1]
    /\ UNCHANGED NotFlow

Unseen(c) == [c EXCEPT !.last = [@ EXCEPT !.seen = FALSE]]

FlowWhile ==
    /\ FlowRoom /\ Len(fl.open) < MaxNest
    /\ FlowStep(Unseen(WhileEntered(fl, new_label(fl, "while"), new_label(Counted(fl, 1), "endwhile"))))

FlowDo ==
    /\ FlowRoom /\ Len(fl.open) < MaxNest
    /\ FlowStep(Unseen(DoEntered(fl, new_label(fl, "do"), new_label(Counted(fl, 1), "enddo"))))

FlowSwitch ==
    /\ FlowRoom /\ Len(fl.open) < MaxNest
    /\ FlowStep(Unseen(SwitchEntered(fl, new_label(fl, "endswitch"),
                              <<new_label(Counted(fl, 1), "case"),
                                new_label(Counted(fl, 2), "case")>>)))

FlowCase ==
    /\ FlowRoom /\ fl.open # <<>>
    /\ fl.open[Len(fl.open)].case_labels # <<>>
    /\ FlowStep(Unseen(CaseEntered(fl, fl.open[Len(fl.open)])))

FlowBreak ==
    /\ FlowRoom
    /\ FlowStep(Broken(fl, get_break_label(fl)))

FlowEnd ==
    /\ fl.error = "" /\ fl.open # <<>>
    /\ FlowStep(Unseen(Left(Closed(fl, fl.open[Len(fl.open)]))))

FlowInit == FlowIdle /\ TryIdle /\ PassIdle /\ SortIdle /\ CpIdle /\ BbIdle /\ ResIdle /\ GenIdle
            /\ DrvIdle /\ CondIdle

FlowNext == FlowWhile \/ FlowDo \/ FlowSwitch \/ FlowCase \/ FlowBreak \/ FlowEnd

SpecFlow == FlowInit /\ [][FlowNext]_vars


\* --------------------------------------------------------- try behaviours
\* try { i = 1; [i = 2;] } [catch (Exception e) { i = 3; }]
\* [catch (Error e) { i = 4; i = 3; }] [finally { i = 5; [i = 0;] }]
TryStatements ==
    {TryStatement(body, catches, finally_block) :
        body \in {<<Assign(1)>>, <<Assign(1), Assign(2)>>},
        catches \in {<<>>,
                     <<CatchClause("java/lang/Exception", "e", <<Assign(3)>>)>>,
                     <<CatchClause("java/lang/Exception", "e", <<Assign(3)>>),
                       CatchClause("java/lang/Error", "e", <<Assign(4), Assign(3)>>)>>},
        finally_block \in {<<>>, <<<<Assign(5)>>>>, <<<<Assign(5), Assign(0)>>>>}}

\* The statements of the method before the try statement
TryPrefixes == {<<>>, <<Assign(2)>>}

TryBegin ==
    /\ tr.pc = "start"
    /\ tr' = [tr EXCEPT !.pc = "catches", !.c = TryBody(tr.c, tr.s, tr.l)]
    /\ UNCHANGED NotTry

TryCatch ==
    /\ tr.pc = "catches" /\ tr.i <= Len(tr.s.catches)
    /\ tr' = [tr EXCEPT !.i = @ + 1,
                        !.c = Registered(CatchHandler(tr.c, tr.s, tr.l, tr.i),
                                         add_class(CatchHandler(tr.c, tr.s, tr.l, tr.i).b.cp,
                                                   tr.s.catches[tr.i].type),
                                         tr.l, tr.i)]
    /\ UNCHANGED NotTry

TryFinally ==
    /\ tr.pc = "catches" /\ tr.i > Len(tr.s.catches) /\ tr.s.finally_block # <<>>
    /\ tr' = [tr EXCEPT !.pc = "end", !.c = FinallyHandler(tr.c, tr.s, tr.l)]
    /\ UNCHANGED NotTry

\* "builder.label(end_label)"
TryEnd ==
    /\ \/ tr.pc = "end"
       \/ tr.pc = "catches" /\ tr.i > Len(tr.s.catches) /\ tr.s.finally_block = <<>>
    /\ tr' = [tr EXCEPT !.pc = "done", !.c = Labelled(tr.c, tr.l.end_label)]
    /\ UNCHANGED NotTry

TryInit ==
    /\ \E s \in TryStatements, prefix \in TryPrefixes :
         tr = [pc |-> "start", s |-> s, c |-> TryStart(prefix),
               l |-> TryLabels(TryStart(prefix), s), i |-> 1]
    /\ FlowIdle /\ PassIdle /\ SortIdle /\ CpIdle /\ BbIdle /\ ResIdle /\ GenIdle /\ DrvIdle
    /\ CondIdle

TryNext == TryBegin \/ TryCatch \/ TryFinally \/ TryEnd

SpecTry == TryInit /\ [][TryNext]_vars

\* --------------------------------------------------- condition behaviours
\* The comparisons used as conditions: between ints, between longs (locals,
\* literals and the field g) and between booleans.
CondOperands ==
    {<<GenLeaf.i, GenLeaf.one>>, <<GenLeaf.one, GenLeaf.i>>, <<GenLeaf.i, GenLeaf.i>>,
     <<GenLeaf.l, GenLeaf.five>>, <<GenLeaf.five, GenLeaf.l>>, <<GenLeaf.g, GenLeaf.l>>}

CondComparisons ==
    {Expr("bin", op, 0, "", kids) : op \in Comparisons, kids \in CondOperands}
      \cup {Expr("bin", op, 0, "", <<GenLeaf.z, GenLeaf.z>>) : op \in {"==", "!="}}

\* "self.compile_condition(stmt.condition, ctx, end_label, False)" of a loop
\* or an if, or with jump_if_true as the condition of a do-while has it
CondCompile ==
    /\ cond.pc = "start"
    /\ cond' = [cond EXCEPT !.pc = "compiled",
                          !.c = compile_condition(cond.c, cond.e, cond.target, cond.jump_if_true)]
    /\ UNCHANGED NotCond

\* "builder.label(end_label)" after the body
CondTarget ==
    /\ cond.pc = "compiled"
    /\ cond' = [cond EXCEPT !.pc = "done", !.c = Labelled(cond.c, cond.target)]
    /\ UNCHANGED NotCond

CondInit ==
    /\ \E e \in CondComparisons, jump_if_true \in BOOLEAN :
         cond = [pc |-> "start", e |-> e, target |-> new_label(MethodStart("V"), "endwhile"),
                jump_if_true |-> jump_if_true, c |-> Counted(MethodStart("V"), 1)]
    /\ FlowIdle /\ TryIdle /\ PassIdle /\ SortIdle /\ CpIdle /\ BbIdle /\ ResIdle /\ GenIdle
    /\ DrvIdle

CondNext == CondCompile \/ CondTarget

SpecCond == CondInit /\ [][CondNext]_vars

\* ------------------------------------------------ short-circuit behaviours
\* A condition over the boolean locals p, q and r is compiled and the code is
\* then run on values of the three, one instruction per step.
Leaf(name) == Expr("id", "", 0, name, <<>>)

Not(e) == Expr("unary", "!", 0, "", <<e>>)

Logical(op, left, right) == Expr("bin", op, 0, "", <<left, right>>)

LogicOps == {"&&", "||"}

LogicConds ==
    {Leaf("p"), Not(Leaf("p"))}
      \cup {Logical(op, x, y) : op \in LogicOps, x \in {Leaf("p"), Not(Leaf("p"))},
                                y \in {Leaf("q"), Not(Leaf("q"))}}
      \cup {Not(Logical(op, Leaf("p"), Leaf("q"))) : op \in LogicOps}
      \cup {Logical(op1, Logical(op2, Leaf("p"), Leaf("q")), Leaf("r")) :
              op1 \in LogicOps, op2 \in LogicOps}
      \cup {Logical(op1, Leaf("p"), Logical(op2, Leaf("q"), Leaf("r"))) :
              op1 \in LogicOps, op2 \in LogicOps}

\* The method context with the three boolean locals declared
LogicStart ==
    add_local(add_local(add_local(Counted(MethodStart("V"), 1), "p", "Z"), "q", "Z"), "r", "Z")

\* The instruction at the byte offset the run has reached
Fetched(b, at) == b.code[CHOOSE i \in DOMAIN b.code : b.code[i].at = at]

\* iload: the value of the local is pushed
LogicLoad ==
    /\ cond.pc = "compiled" /\ cond.run.status = "running"
    /\ cond.run.at < cond.c.b.size
    /\ Fetched(cond.c.b, cond.run.at).op = "iload"
    /\ cond' = [cond EXCEPT
                  !.run = [@ EXCEPT
                             !.at = @ + Fetched(cond.c.b, cond.run.at).len,
                             !.stack = Append(@, cond.env[Fetched(cond.c.b, cond.run.at).n]),
                             !.loaded = Append(@, Fetched(cond.c.b, cond.run.at).n)]]
    /\ UNCHANGED NotCond

\* Whether ifeq or ifne jumps on the value it pops
Taken(op, value) == IF op = "ifeq" THEN ~value ELSE value

Jumped(run, b, ins, target) ==
    IF ~Taken(ins.op, run.stack[Len(run.stack)])
      THEN [run EXCEPT !.at = @ + ins.len, !.stack = SubSeq(@, 1, Len(@) - 1)]
    ELSE IF ins.lbl = target
      THEN [run EXCEPT !.status = "jumped", !.stack = SubSeq(@, 1, Len(@) - 1)]
    ELSE [run EXCEPT !.at = LabelPos(b, ins.lbl), !.stack = SubSeq(@, 1, Len(@) - 1)]

\* ifeq, ifne: to the target, to a label inside the condition, or onwards
LogicBranch ==
    /\ cond.pc = "compiled" /\ cond.run.status = "running"
    /\ cond.run.at < cond.c.b.size
    /\ Fetched(cond.c.b, cond.run.at).op \in {"ifeq", "ifne"}
    /\ cond' = [cond EXCEPT !.run = Jumped(@, cond.c.b, Fetched(cond.c.b, cond.run.at),
                                           cond.target)]
    /\ UNCHANGED NotCond

\* The run has passed the last instruction of the condition.
LogicFall ==
    /\ cond.pc = "compiled" /\ cond.run.status = "running"
    /\ cond.run.at = cond.c.b.size
    /\ cond' = [cond EXCEPT !.run = [@ EXCEPT !.status = "fell"]]
    /\ UNCHANGED NotCond

LogicInit ==
    /\ \E e \in LogicConds, jump_if_true \in BOOLEAN, env \in [5 .. 7 -> BOOLEAN] :
         cond = [pc |-> "start", e |-> e, target |-> new_label(MethodStart("V"), "else"),
                 jump_if_true |-> jump_if_true, c |-> LogicStart, env |-> env,
                 run |-> [at |-> 0, status |-> "running", stack |-> <<>>, loaded |-> <<>>]]
    /\ FlowIdle /\ TryIdle /\ PassIdle /\ SortIdle /\ CpIdle /\ BbIdle /\ ResIdle /\ GenIdle
    /\ DrvIdle

LogicNext == CondCompile \/ LogicLoad \/ LogicBranch \/ LogicFall

SpecLogic == LogicInit /\ [][LogicNext]_vars

\* ------------------------------------------------------- call behaviours
\* class A extends Base { void foo() {} static int bar(int x) {...} ... }
\* class Base implements Ifc { void m() {} static void s() {} }
\* interface Ifc { void a(); default void d() {} }
Declares(name, params, ret, is_static) ==
    [name |-> name, params |-> params, ret |-> ret, is_static |-> is_static,
     is_varargs |-> FALSE]

CallClass ==
    [class_name |-> "A", super_class_name |-> "Base",
     local_methods |-> <<Declares("foo", <<>>, "V", FALSE), Declares("bar", <<"I">>, "I", TRUE)>>,
     local_fields |-> {},
     classpath |->
       {[name |-> "Base", super_class |-> Object, interfaces |-> <<"Ifc">>,
         is_interface |-> FALSE,
         methods |-> <<Declares("m", <<>>, "V", FALSE), Declares("s", <<>>, "V", TRUE)>>],
        [name |-> "Ifc", super_class |-> Object, interfaces |-> <<>>, is_interface |-> TRUE,
         methods |-> <<Declares("a", <<>>, "V", FALSE), Declares("d", <<>>, "V", FALSE)>>],
        [name |-> Object, super_class |-> "", interfaces |-> <<>>, is_interface |-> FALSE,
         methods |-> <<Declares("hashCode", <<>>, "I", FALSE)>>]}]

\* The body of an instance method of A with the locals "Ifc r" and "Base b"
CallStart ==
    add_local(add_local([MethodStart("V") EXCEPT !.g = CallClass], "r", "Ifc"), "b", "Base")

Call(target, name, arguments) == Expr("call", target, 0, name, arguments)

\* foo(); bar(i); m(); s(); super.m(); super.d(); r.a(); r.d(); r.hashCode();
\* b.m(); b.d(); b.hashCode(); Base.s(); hashCode()
CallExprs ==
    {Call("", "foo", <<>>), Call("", "bar", <<GenLeaf.i>>), Call("", "m", <<>>),
     Call("", "s", <<>>), Call("super", "m", <<>>), Call("super", "d", <<>>),
     Call("r", "a", <<>>), Call("r", "d", <<>>), Call("r", "hashCode", <<>>),
     Call("b", "m", <<>>), Call("b", "d", <<>>), Call("b", "hashCode", <<>>),
     Call("Base", "s", <<>>), Call("", "hashCode", <<>>)}

\* An expression statement that is a method call; v is the context as
\* compile_expression leaves it.
CallCompiled(e, v) ==
    /\ GenStep(ExpressionStatement(v))
    /\ gen_last' = [seen |-> TRUE, from |-> Len(gen.c.b.code) + 1,
                    before |-> gen.c.b.current_stack, c |-> v, e |-> e]

CallStatement ==
    /\ GenRoom
    /\ \E e \in CallExprs : CallCompiled(e, compile_expression(gen.c, e))

CallInit ==
    /\ gen = [c |-> CallStart, n |-> 0]
    /\ gen_last = [seen |-> FALSE, from |-> 0, before |-> 0, c |-> CallStart,
                   e |-> Call("", "foo", <<>>)]
    /\ gen_out = [status |-> "none", attr |-> <<>>]
    /\ CpIdle /\ BbIdle /\ ResIdle /\ DrvIdle /\ OthersIdle

CallNext == CallStatement \/ GenFinish

SpecCall == CallInit /\ [][CallNext]_vars


\* ------------------------------------------------------------------------
\* Enhanced for loops in a method body: a void instance method whose locals
\* include an int[] and a long[], compiled one statement at a time.
ForEachStart == add_local(add_local(MethodStart("V"), "arr", "[I"), "longs", "[J")

EnhancedFor(type, name, iterable, body) ==
    Stmt("foreach", type, name, <<Expr("id", "", 0, iterable, <<>>)>>, <<body>>)

ForEachBodies ==
    {Stmt("expr", "", "", <<Expr("assign", "=", 0, "i", <<GenLeaf.one>>)>>, <<>>),
     Stmt("local", "I", "t", <<GenLeaf.one>>, <<>>),
     EnhancedFor("I", "y", "arr",
                 Stmt("expr", "", "", <<Expr("assign", "=", 0, "i", <<GenLeaf.one>>)>>, <<>>))}

ForEachLoops ==
    {EnhancedFor("I", "x", "arr", body) : body \in ForEachBodies}
      \cup {EnhancedFor("J", "x", "longs", body) : body \in ForEachBodies}
      \cup {EnhancedFor("I", "x", "i", body) : body \in ForEachBodies}

\* An enhanced for statement has been compiled, leaving the context c; the
\* method's next_slot as it was before the statement is kept beside it.
ForEachCompiled(c) ==
    /\ GenStep(c)
    /\ gen_last' = [seen |-> TRUE, from |-> Len(gen.c.b.code) + 1,
                    before |-> gen.c.b.current_stack, c |-> c,
                    next_slot |-> gen.c.next_slot]

ForEachStatement ==
    /\ GenRoom
    /\ \E s \in ForEachLoops : ForEachCompiled(compile_statement(gen.c, s))

ForEachInit ==
    /\ gen = [c |-> ForEachStart, n |-> 0]
    /\ gen_last = [seen |-> FALSE, from |-> 0, before |-> 0, c |-> ForEachStart,
                   next_slot |-> ForEachStart.next_slot]
    /\ gen_out = [status |-> "none", attr |-> <<>>]
    /\ CpIdle /\ BbIdle /\ ResIdle /\ DrvIdle /\ OthersIdle

ForEachNext == ForEachStatement \/ GenLocalVariableDeclaration \/ GenFinish

SpecForEach == ForEachInit /\ [][ForEachNext]_vars

\* ------------------------------------------------------------------------
\* Serialization on its own: a ClassFile is filled through add_field,
\* add_method and its annotations list, and serialized with to_bytes.
SerialStart == ClassFile("A", Object)

SerialFields == {FieldInfo("value", "I"), FieldInfo("g", "J")}

SerialMethods == {MethodInfo("foo", "()V", FALSE), MethodInfo("area", "()I", TRUE)}

SerialAnnotations ==
    {AnnotationInfo("Ljava/lang/Deprecated;", <<>>),
     AnnotationInfo("Ljava/lang/SuppressWarnings;",
                    <<[name |-> "value", tag |-> "s", value |-> "value"]>>),
     AnnotationInfo("Ljava/lang/SuppressWarnings;",
                    <<[name |-> "value", tag |-> "s", value |-> "unchecked"]>>),
     AnnotationInfo("LNamed;",
                    <<[name |-> "g", tag |-> "s", value |-> "foo"],
                      [name |-> "since", tag |-> "s", value |-> "I"]>>)}

SerialRoom == drv.n < MaxMembers

SerialGrow(cf) == drv' = [cf |-> cf, n |-> drv.n + 1] /\ UNCHANGED <<drv_last, NotDrv>>

SerialAddField ==
    /\ SerialRoom
    /\ \E f \in SerialFields : SerialGrow([drv.cf EXCEPT !.fields = Append(@, f)])

SerialAddMethod ==
    /\ SerialRoom
    /\ \E method \in SerialMethods : SerialGrow([drv.cf EXCEPT !.methods = Append(@, method)])

SerialAnnotate ==
    /\ SerialRoom
    /\ \E ann \in SerialAnnotations :
         SerialGrow([drv.cf EXCEPT !.annotations = Append(@, ann)])

SerialToBytes ==
    /\ drv_last' = [seen |-> TRUE, bytes |-> to_bytes(drv.cf)]
    /\ UNCHANGED <<drv, NotDrv>>

SerialInit ==
    /\ drv = [cf |-> SerialStart, n |-> 0]
    /\ drv_last = [seen |-> FALSE, bytes |-> to_bytes(SerialStart)]
    /\ CpIdle /\ BbIdle /\ ResIdle /\ GenIdle /\ OthersIdle

SerialNext == SerialAddField \/ SerialAddMethod \/ SerialAnnotate \/ SerialToBytes

SpecSerial == SerialInit /\ [][SerialNext]_vars

\* ------------------------------------------------------------------------
\* The code of a try statement, run: once _compile_try has emitted the
\* statement, control enters at try_start and follows the emitted
\* instructions; an instruction of the try body or of a catch body may throw,
\* and the exception table then names where control goes.
Return == Stmt("return", "", "", <<>>, <<>>)

ExitStatements ==
    {TryStatement(body, catches, finally_block) :
        body \in {<<Assign(1)>>, <<Assign(1), Return>>, <<Return, Assign(2)>>},
        catches \in {<<>>,
                     <<CatchClause("java/lang/Exception", "e", <<Assign(3)>>)>>,
                     <<CatchClause("java/lang/Exception", "e", <<Assign(3), Return>>)>>},
        finally_block \in {<<>>, <<<<Assign(5)>>>>}}

\* The exception-table entry k covers the instruction at the offset at
Covers(b, k, at) ==
    /\ LabelPos(b, b.exception_handlers[k].start) <= at
    /\ at < LabelPos(b, b.exception_handlers[k].end)

\* The entries that can take an exception thrown at the offset at: the JVM
\* takes the first entry in table order that covers the offset and whose
\* catch type the exception has, so a typed entry may be passed over and a
\* catch-all entry may not.
Handling(b, at) ==
    {k \in DOMAIN b.exception_handlers :
        /\ Covers(b, k, at)
        /\ \A j \in 1 .. k - 1 : Covers(b, j, at) => b.exception_handlers[j].catch_type # 0}

InBody(marks, at) == \E m \in Bodies(marks) : m.from <= at /\ at < m.to

EndsFinally(marks, ins) ==
    \E f \in Finallies(marks) : f.from <= ins.at /\ ins.at + ins.len = f.to

\* One instruction is executed
Executed(run, b, ins, marks) ==
    IF ins.op \in {"return", "athrow"} THEN [run EXCEPT !.status = "left", !.how = ins.op]
    ELSE IF ins.op = "goto" THEN [run EXCEPT !.at = LabelPos(b, ins.lbl)]
    ELSE [run EXCEPT !.at = @ + ins.len,
                     !.ran_finally = @ \/ EndsFinally(marks, ins)]

ExitEnter ==
    /\ tr.pc = "done" /\ tr.run.status = "idle"
    /\ tr' = [tr EXCEPT !.run = [@ EXCEPT !.status = "running",
                                          !.at = LabelPos(tr.c.b, tr.l.try_start)]]
    /\ UNCHANGED NotTry

ExitStep ==
    /\ tr.pc = "done" /\ tr.run.status = "running"
    /\ tr' = [tr EXCEPT !.run =
                IF tr.run.at = LabelPos(tr.c.b, tr.l.end_label)
                  THEN [@ EXCEPT !.status = "left", !.how = "end"]
                ELSE Executed(@, tr.c.b, Fetched(tr.c.b, tr.run.at), tr.c.marks)]
    /\ UNCHANGED NotTry

ExitThrow ==
    /\ tr.pc = "done" /\ tr.run.status = "running" /\ tr.run.throws < MaxThrows
    /\ InBody(tr.c.marks, tr.run.at)
    /\ \/ /\ Handling(tr.c.b, tr.run.at) = {}
          /\ tr' = [tr EXCEPT !.run = [@ EXCEPT !.status = "left", !.how = "exception"]]
       \/ \E k \in Handling(tr.c.b, tr.run.at) :
             tr' = [tr EXCEPT !.run =
                      [@ EXCEPT !.at = LabelPos(tr.c.b, tr.c.b.exception_handlers[k].handler),
                                !.throws = @ + 1]]
    /\ UNCHANGED NotTry

ExitInit ==
    /\ \E s \in ExitStatements :
         tr = [pc |-> "start", s |-> s, c |-> TryStart(<<>>),
               l |-> TryLabels(TryStart(<<>>), s), i |-> 1,
               run |-> [at |-> 0, status |-> "idle", how |-> "", ran_finally |-> FALSE,
                        throws |-> 0]]
    /\ FlowIdle /\ PassIdle /\ SortIdle /\ CpIdle /\ BbIdle /\ ResIdle /\ GenIdle /\ DrvIdle
    /\ CondIdle

ExitNext ==
    \/ TryBegin \/ TryCatch \/ TryFinally \/ TryEnd
    \/ ExitEnter \/ ExitStep \/ ExitThrow

SpecExit == ExitInit /\ [][ExitNext]_vars

\* ------------------------------------------------------------------------
\* Try statements inside try statements: the outer statement is compiled
\* step by step, the inner ones with the blocks they are in.
Try(catches, finally_block) ==
    Stmt("try", "", "", <<TryStatement(<<Assign(1)>>, catches, finally_block)>>, <<>>)

NestInner ==
    {Try(<<CatchClause("java/lang/Exception", "x", <<Assign(2)>>)>>, <<>>),
     Try(<<>>, <<<<Assign(0)>>>>),
     Try(<<CatchClause("java/lang/Error", "x", <<Assign(2)>>)>>, <<<<Assign(0)>>>>)}

NestStatements ==
    UNION {{TryStatement(body, catches, finally_block) :
              body \in {<<Assign(1)>>, <<inner>>, <<Assign(1), inner>>},
              catches \in {<<>>,
                           <<CatchClause("java/lang/Exception", "e", <<Assign(3)>>)>>,
                           <<CatchClause("java/lang/Exception", "e", <<inner>>),
                             CatchClause("java/lang/Error", "e", <<Assign(4)>>)>>},
              finally_block \in {<<>>, <<<<Assign(5)>>>>, <<<<inner>>>>}} :
           inner \in NestInner}

NestInit ==
    /\ \E s \in NestStatements :
         tr = [pc |-> "start", s |-> s, c |-> TryStart(<<>>),
               l |-> TryLabels(TryStart(<<>>), s), i |-> 1]
    /\ FlowIdle /\ PassIdle /\ SortIdle /\ CpIdle /\ BbIdle /\ ResIdle /\ GenIdle /\ DrvIdle
    /\ CondIdle

NestNext == TryBegin \/ TryCatch \/ TryFinally \/ TryEnd

SpecNest == NestInit /\ [][NestNext]_vars

\* ------------------------------------------------------------------------
\* Enums.  An EnumDeclaration keeps its name and the names of its constants;
\* the constants have no arguments and the body is empty.
EnumDeclaration(name, constants) == [name |-> name, constants |-> constants]

\* new, anewarray, checkcast: add_class, the opcode and the index
ClassOp(b, op, class_name, pops, pushes) ==
    _push(_pop(EmitRef(b, add_class(b.cp, class_name), op, 3, pops, pushes), pops), pushes)

\* ldc_string and ldc_class
Ldc(b, r) ==
    _push(EmitRef(b, r, IF r.idx <= 255 THEN "ldc" ELSE "ldc_w",
                  IF r.idx <= 255 THEN 2 ELSE 3, 0, 1), 1)

\* builder.dup(): the tracked depth grows by one
dup(b) == _push(_emit(b, "dup", 1, "", 0, 1, 2, <<>>), 1)

\* compile_enum up to the methods: the class name, the ClassFile, a field per
\* constant with the descriptor "L" + enum.name + ";" and the field $VALUES
\* with the descriptor "[L" + enum.name + ";"
EnumFile(enum, class_name) ==
    [ClassFile(class_name, "java/lang/Enum") EXCEPT
        !.fields = [i \in 1 .. Len(enum.constants) + 1 |->
                      IF i <= Len(enum.constants)
                        THEN FieldInfo(enum.constants[i], "L" \o enum.name \o ";")
                      ELSE FieldInfo("$VALUES", "[L" \o enum.name \o ";")]]

EnumStart(enum, outer_class) ==
    [enum |-> enum, class_name |-> Str(TypeName(outer_class, enum.name)),
     class_file |-> EnumFile(enum, Str(TypeName(outer_class, enum.name))),
     b |-> NewBuilder(EmptyPool)]

\* "code=builder.build(); self.class_file.add_method(method_info)": the
\* builder shares the pool of the class file
Generated(g, b, name, descriptor) ==
    [g EXCEPT !.b = b,
              !.class_file = [@ EXCEPT !.cp = b.cp,
                                       !.methods = Append(@, MethodInfo(name, descriptor,
                                                                         FALSE))]]

_generate_enum_constructor(g) ==
    Generated(g,
              Plain(invokespecial(
                        Load(Load(Load([NewBuilder(g.class_file.cp) EXCEPT !.max_locals = 3],
                                       "aload", 0, 1), "aload", 1, 1), "iload", 2, 1),
                        "java/lang/Enum", "<init>",
                        [params |-> <<"java/lang/String", "I">>, ret |-> "V"], 3, 0),
                    "return", 0, 0),
              "<init>", "(Ljava/lang/String;I)V")

\* "for ordinal, const in enumerate(enum.constants)": new, dup, ldc, iconst,
\* invokespecial, putstatic
RECURSIVE CreateConstants(_, _, _)
CreateConstants(b, g, i) ==
    IF i > Len(g.enum.constants) THEN b
    ELSE CreateConstants(
             FieldOp(invokespecial(
                         iconst(Ldc(dup(ClassOp(b, "new", g.class_name, 0, 1)),
                                    add_string(dup(ClassOp(b, "new", g.class_name, 0, 1)).cp,
                                               g.enum.constants[i])),
                                i - 1),
                         g.class_name, "<init>",
                         [params |-> <<"java/lang/String", "I">>, ret |-> "V"], 3, 0),
                     "putstatic", g.class_name, g.enum.constants[i],
                     "L" \o g.class_name \o ";", 1),
             g, i + 1)

\* "Fill array": dup, iconst, getstatic, aastore
RECURSIVE FillArray(_, _, _)
FillArray(b, g, i) ==
    IF i > Len(g.enum.constants) THEN b
    ELSE FillArray(Plain(FieldOp(iconst(dup(b), i - 1), "getstatic", g.class_name,
                                 g.enum.constants[i], "L" \o g.class_name \o ";", 1),
                         "aastore", 3, 0),
                   g, i + 1)

_generate_enum_static_initializer(g) ==
    Generated(g,
              Plain(FieldOp(FillArray(ClassOp(iconst(CreateConstants(
                                                         NewBuilder(g.class_file.cp), g, 1),
                                                     Len(g.enum.constants)),
                                              "anewarray", g.class_name, 1, 1),
                                      g, 1),
                            "putstatic", g.class_name, "$VALUES",
                            "[L" \o g.class_name \o ";", 1),
                    "return", 0, 0),
              "<clinit>", "()V")

_generate_enum_values_method(g) ==
    Generated(g,
              Plain(ClassOp(invokevirtual(
                                FieldOp(NewBuilder(g.class_file.cp), "getstatic", g.class_name,
                                        "$VALUES", "[L" \o g.class_name \o ";", 1),
                                "[L" \o g.class_name \o ";", "clone",
                                [params |-> <<>>, ret |-> "java/lang/Object"], 0, 1),
                            "checkcast", "[L" \o g.class_name \o ";", 1, 1),
                    "areturn", 1, 0),
              "values", "()[L" \o g.class_name \o ";")

_generate_enum_valueof_method(g) ==
    Generated(g,
              Plain(ClassOp(invokestatic(
                                Load(Ldc([NewBuilder(g.class_file.cp) EXCEPT !.max_locals = 1],
                                         add_class(g.class_file.cp, g.class_name)),
                                     "aload", 0, 1),
                                "java/lang/Enum", "valueOf",
                                [params |-> <<"java/lang/Class", "java/lang/String">>,
                                 ret |-> "java/lang/Enum"], 2, 1),
                            "checkcast", g.class_name, 1, 1),
                    "areturn", 1, 0),
              "valueOf", "(Ljava/lang/String;)L" \o g.class_name \o ";")

\* The enums compiled: top-level in the default package, top-level in the
\* package p, nested in the class Outer, nested in the class p/Outer
EnumOuters == {<<>>, <<"p", "/">>, <<"Outer">>, <<"p", "/", "Outer">>}

EnumDeclarations ==
    {EnumDeclaration(name, constants) :
        name \in {"E", "Color"}, constants \in {<<>>, <<"A">>, <<"A", "B">>}}

EnumStep(pc, g) == drv' = [pc |-> pc, g |-> g] /\ UNCHANGED <<drv_last, NotDrv>>

EnumConstructor ==
    drv.pc = "fields" /\ EnumStep("constructor", _generate_enum_constructor(drv.g))

EnumStaticInitializer ==
    drv.pc = "constructor" /\ EnumStep("clinit", _generate_enum_static_initializer(drv.g))

EnumValues ==
    drv.pc = "clinit" /\ EnumStep("values", _generate_enum_values_method(drv.g))

EnumValueOf ==
    drv.pc = "values" /\ EnumStep("valueOf", _generate_enum_valueof_method(drv.g))

\* "return self.class_file.to_bytes()"
EnumToBytes ==
    /\ drv.pc = "valueOf"
    /\ drv' = [drv EXCEPT !.pc = "done"]
    /\ drv_last' = [seen |-> TRUE, bytes |-> to_bytes(drv.g.class_file)]
    /\ UNCHANGED NotDrv

EnumInit ==
    /\ \E enum \in EnumDeclarations, outer_class \in EnumOuters :
         drv = [pc |-> "fields", g |-> EnumStart(enum, outer_class)]
    /\ drv_last = [seen |-> FALSE, bytes |-> to_bytes(ClassFile("E", "java/lang/Enum"))]
    /\ CpIdle /\ BbIdle /\ ResIdle /\ GenIdle /\ OthersIdle

EnumNext ==
    EnumConstructor \/ EnumStaticInitializer \/ EnumValues \/ EnumValueOf \/ EnumToBytes

SpecEnum == EnumInit /\ [][EnumNext]_vars

\* ------------------------------------------------------------------------
\* Methods and bridge methods.  The class A extends Base, which is on the
\* classpath; the methods of A have empty bodies and return void.
BridgeBase ==
    [name |-> "Base", super_class |-> Object, interfaces |-> <<>>, is_interface |-> FALSE,
     methods |-> <<Declares("set", <<Object>>, "V", FALSE),
                   Declares("run", <<>>, "V", FALSE),
                   Declares("put", <<"J", Object>>, "V", FALSE)>>]

BridgeMethods ==
    {Declares("set", <<"java/lang/String">>, "V", FALSE),
     Declares("set", <<"java/lang/Integer">>, "V", FALSE),
     Declares("set", <<Object>>, "V", FALSE),
     Declares("run", <<>>, "V", FALSE),
     Declares("put", <<"J", "java/lang/String">>, "V", FALSE),
     Declares("of", <<Object>>, "V", TRUE)}

\* The bodies of A: lists of methods no two of which have the same name and
\* the same parameter types
BridgeBodies ==
    {body \in UNION {[1 .. n -> BridgeMethods] : n \in 1 .. MaxMethods} :
        \A i, j \in DOMAIN body :
            i # j => (body[i].name # body[j].name \/ body[i].params # body[j].params)}

\* The generator while it compiles A: the first pass has registered the
\* methods of the body in _local_methods
BridgeClass(body) ==
    [class_name |-> "A", super_class_name |-> "Base", local_methods |-> body,
     local_fields |-> {}, classpath |-> {BridgeBase}]

\* "for i, parent_param_type in enumerate(parent_method.param_types)"
RECURSIVE LoadArguments(_, _, _, _, _)
LoadArguments(b, parent_params, child_params, i, slot) ==
    IF i > Len(parent_params) THEN b
    ELSE IF parent_params[i] \in {"J", "D"}
      THEN LoadArguments(Load(b, IF parent_params[i] = "J" THEN "lload" ELSE "dload", slot, 2),
                         parent_params, child_params, i + 1, slot + 2)
    ELSE IF ~IsPrimitive(parent_params[i])
      THEN LoadArguments(IF i <= Len(child_params) /\ child_params[i] # parent_params[i]
                           THEN ClassOp(Load(b, "aload", slot, 1), "checkcast",
                                        child_params[i], 1, 1)
                         ELSE Load(b, "aload", slot, 1),
                         parent_params, child_params, i + 1, slot + 1)
    ELSE LoadArguments(Load(b, IF parent_params[i] = "F" THEN "fload" ELSE "iload", slot, 1),
                       parent_params, child_params, i + 1, slot + 1)

\* The code of the bridge method: this, the arguments, the call of the real
\* method and the return of a void method
BridgeCode(g, pool, method, parent) ==
    [Plain(invokevirtual(LoadArguments(Load(NewBuilder(pool), "aload", 0, 1),
                                       parent.params, method.params, 1, 1),
                         g.class_name, method.name, method,
                         ArgSlots(method.params) + 1, 0),
           "return", 0, 0)
     EXCEPT !.max_locals = 1 + ArgSlots(parent.params)]

AddBridge(class_file, b, method, parent) ==
    [class_file EXCEPT !.cp = b.cp,
                       !.methods = Append(@, MethodInfo(method.name, Descriptor(parent),
                                                        FALSE))]

BridgeFor(g, class_file, method, parent_method) ==
    IF parent_method = <<>> THEN class_file
    ELSE IF Descriptor(parent_method[1]) = Descriptor(method) THEN class_file
    ELSE AddBridge(class_file, BridgeCode(g, class_file.cp, method, parent_method[1]),
                   method, parent_method[1])

_generate_bridge_method_if_needed(g, class_file, method) ==
    IF g.super_class_name = "" THEN class_file
    ELSE BridgeFor(g, class_file, method,
                   _find_method(g, g.super_class_name, method.name, method.params, 3))

\* compile_method for a method with an empty body that returns void: the
\* code is the implicit return
compile_method(g, class_file, method) ==
    IF ~method.is_static
      THEN _generate_bridge_method_if_needed(
               g, [class_file EXCEPT !.methods = Append(@, MethodInfo(method.name,
                                                                      Descriptor(method),
                                                                      FALSE))],
               method)
    ELSE [class_file EXCEPT !.methods = Append(@, MethodInfo(method.name, Descriptor(method),
                                                             FALSE))]

\* One round of the third pass of compile_class
BridgeCompileMethod ==
    /\ gen.pc = "members" /\ gen.i <= Len(gen.body)
    /\ gen' = [gen EXCEPT !.i = @ + 1,
                          !.class_file = compile_method(BridgeClass(gen.body), @,
                                                        gen.body[gen.i])]
    /\ UNCHANGED <<gen_last, gen_out, NotGen>>

\* "if not has_constructor: self._generate_default_constructor()" and on to
\* the end of compile_class
BridgeFinish ==
    /\ gen.pc = "members" /\ gen.i > Len(gen.body)
    /\ gen' = [gen EXCEPT !.pc = "done",
                          !.class_file =
                             [@ EXCEPT !.cp = ConstructorPool(@, <<"A">>, FALSE, <<>>),
                                       !.methods = Append(@, MethodInfo("<init>", "()V",
                                                                        FALSE))]]
    /\ UNCHANGED <<gen_last, gen_out, NotGen>>

BridgeInit ==
    /\ \E body \in BridgeBodies :
         gen = [pc |-> "members", body |-> body, i |-> 1, class_file |-> ClassFile("A", "Base")]
    /\ gen_last = [seen |-> FALSE, from |-> 0, before |-> 0, c |-> MethodStart("V")]
    /\ gen_out = [status |-> "none", attr |-> <<>>]
    /\ CpIdle /\ BbIdle /\ ResIdle /\ DrvIdle /\ OthersIdle

BridgeNext == BridgeCompileMethod \/ BridgeFinish

SpecBridge == BridgeInit /\ [][BridgeNext]_vars

\* ------------------------------------------------------------------------
\* Type parameters.  A type declaration keeps its kind, its name, the names
\* of its type parameters (none has bounds), its nested types and its
\* methods; a method keeps its name, the names of its type parameters and the
\* name of its return type, and has no parameters.
Generic(kind, name, type_parameters, body, methods) ==
    [kind |-> kind, name |-> name, type_parameters |-> type_parameters, body |-> body,
     methods |-> methods]

GenericMethod(name, type_parameters, return_type) ==
    [name |-> name, type_parameters |-> type_parameters, return_type |-> return_type]

Names(type_parameters) == {type_parameters[i] : i \in DOMAIN type_parameters}

\* A CodeGenerator on which compile_class has not run
NewGenerator ==
    [class_name |-> <<>>, _type_params |-> {}, current_class_type_params |-> <<>>,
     _class_type_params |-> {}]

\* compile_class up to the nested types: the name and the three attributes
\* that hold the type parameters of the class
EnterGeneric(g, cls, outer_class) ==
    [class_name |-> TypeName(outer_class, cls.name),
     _class_type_params |-> Names(cls.type_parameters),
     _type_params |-> Names(cls.type_parameters),
     current_class_type_params |-> cls.type_parameters]

\* The generator after compile_class, compile_interface or compile_enum has
\* compiled a nested type.  compile_method leaves _type_params as it found
\* it, and the statements after the nested types restore class_name.
RECURSIVE CompiledNested(_, _, _)
RECURSIVE CompiledAll(_, _, _)
CompiledAll(g, body, saved_class_name) ==
    IF body = <<>> THEN g
    ELSE CompiledAll(CompiledNested(g, Head(body), saved_class_name), Tail(body),
                     saved_class_name)

CompiledNested(g, member, outer_class) ==
    IF member.kind = "class"
      THEN [CompiledAll(EnterGeneric(g, member, outer_class), member.body,
                        TypeName(outer_class, member.name))
            EXCEPT !.class_name = TypeName(outer_class, member.name)]
    ELSE IF member.kind = "interface"
      THEN [g EXCEPT !.class_name = TypeName(outer_class, member.name),
                     !._class_type_params = Names(member.type_parameters)]
    ELSE [g EXCEPT !.class_name = TypeName(outer_class, member.name),
                   !._class_type_params = {}]

\* _generate_type_signature of a class type without type arguments
_generate_type_signature(g, name, type_param_names) ==
    IF name = "void" THEN "V"
    ELSE IF name \in type_param_names THEN "T" \o name \o ";"
    ELSE "L" \o _resolve_class_name(g.class_name, name) \o ";"

\* _generate_type_params_signature with _generate_type_param_signature
RECURSIVE TypeParamSignatures(_)
TypeParamSignatures(type_parameters) ==
    IF type_parameters = <<>> THEN ""
    ELSE Head(type_parameters) \o ":Ljava/lang/Object;"
         \o TypeParamSignatures(Tail(type_parameters))

_generate_type_params_signature(type_parameters) ==
    IF type_parameters = <<>> THEN "" ELSE "<" \o TypeParamSignatures(type_parameters) \o ">"

\* _generate_method_signature; "" is None
_generate_method_signature(g, method, class_type_params) ==
    IF /\ method.type_parameters = <<>>
       /\ method.return_type \notin class_type_params
      THEN ""
    ELSE _generate_type_params_signature(method.type_parameters) \o "()"
         \o _generate_type_signature(g, method.return_type,
                                     class_type_params \cup Names(method.type_parameters))

\* compile_method: the descriptor is built by resolve_type, the signature
\* from current_class_type_params; _type_params is restored at the end
GenericMethodInfo(g, method) ==
    [name |-> method.name,
     descriptor |-> "()" \o (IF method.return_type = "void" THEN "V"
                             ELSE "L" \o _resolve_class_name(g.class_name, method.return_type)
                                  \o ";"),
     signature |-> _generate_method_signature(g, method,
                                              Names(g.current_class_type_params))]

ParamsNestedTypes ==
    {Generic("class", "Inner", <<"U">>, <<>>, <<GenericMethod("self", <<>>, "U")>>),
     Generic("class", "Plain", <<>>, <<>>, <<>>),
     Generic("class", "Same", <<"T">>, <<>>, <<>>),
     Generic("class", "Deep", <<"T">>, <<Generic("class", "Leaf", <<"W">>, <<>>, <<>>)>>, <<>>),
     Generic("interface", "Face", <<"V">>, <<>>, <<>>),
     Generic("enum", "Kind", <<>>, <<>>, <<>>)}

ParamsMethods ==
    <<GenericMethod("get", <<>>, "T"), GenericMethod("pick", <<"V">>, "V"),
      GenericMethod("run", <<>>, "void")>>

ParamsClasses ==
    {Generic("class", "Outer", type_parameters, body, ParamsMethods) :
        type_parameters \in {<<>>, <<"T">>},
        body \in UNION {[1 .. n -> ParamsNestedTypes] : n \in 0 .. MaxNested}}

ParamsEnter ==
    /\ drv.pc = "start"
    /\ drv' = [drv EXCEPT !.pc = "nested", !.g = EnterGeneric(@, drv.cls, <<>>)]
    /\ UNCHANGED <<drv_last, NotDrv>>

\* One round of "for member in cls.body" of the first pass
ParamsNested ==
    /\ drv.pc = "nested" /\ drv.i <= Len(drv.cls.body)
    /\ drv' = [drv EXCEPT !.i = @ + 1,
                          !.g = CompiledNested(@, drv.cls.body[drv.i], <<drv.cls.name>>)]
    /\ drv_last' = [seen |-> TRUE, before |-> drv.g, after |-> drv'.g]
    /\ UNCHANGED NotDrv

\* "Restore state after compiling nested classes": class_name, class_file,
\* super_class_name, the init sequences, _local_methods and _local_fields
ParamsRestore ==
    /\ drv.pc = "nested" /\ drv.i > Len(drv.cls.body)
    /\ drv' = [drv EXCEPT !.pc = "methods", !.i = 1,
                          !.g = [@ EXCEPT !.class_name = <<drv.cls.name>>]]
    /\ UNCHANGED <<drv_last, NotDrv>>

\* One round of the third pass
ParamsCompileMethod ==
    /\ drv.pc = "methods" /\ drv.i <= Len(drv.cls.methods)
    /\ drv' = [drv EXCEPT !.i = @ + 1,
                          !.methods = Append(@, GenericMethodInfo(drv.g, drv.cls.methods[drv.i]))]
    /\ UNCHANGED <<drv_last, NotDrv>>

ParamsInit ==
    /\ \E cls \in ParamsClasses :
         drv = [pc |-> "start", cls |-> cls, g |-> NewGenerator, i |-> 1, methods |-> <<>>]
    /\ drv_last = [seen |-> FALSE, before |-> NewGenerator, after |-> NewGenerator]
    /\ CpIdle /\ BbIdle /\ ResIdle /\ GenIdle /\ OthersIdle

ParamsNext == ParamsEnter \/ ParamsNested \/ ParamsRestore \/ ParamsCompileMethod

SpecParams == ParamsInit /\ [][ParamsNext]_vars
\* ------------------------------------------------------ constant-pool claims
\* C1: adding a value equal to one already present returns the existing index
\* and leaves the pool unchanged, and no two entries of the pool are equal.
C1_AddIdempotent ==
    /\ (cp_last.kind # "none" /\ cp_last.present) =>
          /\ cp = cp_last.before
          /\ cp_last.idx < PoolLen(cp_last.before)
          /\ EntryAt(cp_last.before, cp_last.idx) = cp_last.entry
    /\ \A i, j \in 1 .. Len(cp.tail) :
          (i # j /\ cp.tail[i] # Hole) => cp.tail[i] # cp.tail[j]
    /\ \A i \in 1 .. Len(cp.tail) : ~InBase(cp, cp.tail[i])

\* C1 witness: a two-slot constant that was present, and not the first entry,
\* has been added again.
C1_Witness ==
    /\ cp_last.kind = "long"
    /\ cp_last.present
    /\ \E i \in 1 .. Len(cp.tail) : cp.tail[i] = Hole
    /\ cp_last.idx > 1

\* C9: an add whose index would exceed 65535 signals ClassTooLarge, so every
\* index an add returns fits the u2 field.
C9_IndexFitsU2 == cp_last.kind # "none" => cp_last.idx <= U2Max


\* ------------------------------------------------------------ builder claims
\* Labels that a forward reference (branch or switch entry) or an exception
\* handler of the builder names without their having been defined.
Undefined(b) ==
    ({b.forward_refs[i].label : i \in 1 .. Len(b.forward_refs)}
       \cup UNION {{b.exception_handlers[i].start, b.exception_handlers[i].end,
                    b.exception_handlers[i].handler} :
                   i \in 1 .. Len(b.exception_handlers)})
      \ {l.name : l \in b.labels}

\* C7: an emit operation that pops more than the tracked depth signals
\* InvalidBytecode, so the tracked depth of a builder is never negative.
C7_DepthNeverNegative == bb.current_stack >= 0

\* C8: finalizing a method in which a branch, a switch entry or an
\* exception-table entry references an undefined label fails, and no Code
\* attribute is produced.
C8_UndefinedLabelFails ==
    (bb_out.status # "none" /\ Undefined(bb) # {}) =>
        (bb_out.status = "ValueError" /\ bb_out.attr = <<>>)

\* C8 witness: build has failed on a builder whose branches are all resolved
\* but one of whose exception handlers names an undefined label.
C8_Witness ==
    /\ bb_out.status = "ValueError"
    /\ bb_out.attr = <<>>
    /\ bb.forward_refs # <<>>
    /\ resolve_labels(bb).ok
    /\ Undefined(bb) # {}

\* --------------------------------------------------------- resolution claims
\* The parameter lists of the overloads in the table that the last call searched.
Searched == {res_last.table[i].params : i \in 1 .. Len(res_last.table)}

\* C10: with the candidates (int), (long) and (Object) and an actual argument
\* of type byte, (int) is chosen, whatever the declaration order and whether
\* the candidates are in the class being compiled or come from the classpath.
C10_ByteChoosesInt ==
    (/\ res_last.where # "none"
     /\ res_last.arg_types = <<"B">>
     /\ Searched = {<<"I">>, <<"J">>, <<Object>>}) =>
        (res_last.found # <<>> /\ res_last.found[1].params = <<"I">>)

\* The spec's order on parameter types: p is narrower than q when it comes
\* earlier in the widening order, or is a primitive where q is Object.
NarrowerOrSame(p, q) ==
    \/ p = q
    \/ /\ InList(<<"B", "S", "C", "I", "J", "F", "D">>, p)
       /\ InList(<<"B", "S", "C", "I", "J", "F", "D">>, q)
       /\ IndexOf(<<"B", "S", "C", "I", "J", "F", "D">>, p)
            < IndexOf(<<"B", "S", "C", "I", "J", "F", "D">>, q)
    \/ IsPrimitive(p) /\ q = Object

\* The overloads of the searched table that match the last call: the same
\* number of parameters, each assignable from its argument.
Matching ==
    {res_last.table[i].params : i \in
        {j \in 1 .. Len(res_last.table) :
            /\ Len(res_last.table[j].params) = Len(res_last.arg_types)
            /\ _args_compatible(res, res_last.arg_types, res_last.table[j].params)}}

\* C11: when several overloads of a classpath class match a call, the one
\* that _most_specific_method returns is at every parameter position at least
\* as narrow as every other matching overload; when no candidate is, the call
\* fails instead of returning one.
C11_SelectedIsMostSpecific ==
    (res_last.where = "Lib" /\ Cardinality(Matching) > 1 /\ res_last.found # <<>>) =>
        \A params \in Matching :
            \A i \in 1 .. Len(params) : NarrowerOrSame(res_last.found[1].params[i], params[i])

\* ------------------------------------------------------ stack-depth claims
\* The idealized interpreter of an instruction sequence: it follows every
\* path from an instruction, counting for each instruction the slots the JVM
\* pops and pushes.  A place is an index into the code, Len(code) + 1 being
\* the end of the sequence.
PlaceOf(b, pos) ==
    IF pos = b.size THEN Len(b.code) + 1
    ELSE CHOOSE i \in 1 .. Len(b.code) : b.code[i].at = pos

EndsPath(op) ==
    op \in {"goto", "return", "ireturn", "lreturn", "freturn", "dreturn", "areturn",
            "athrow", "lookupswitch"}

BranchLabels(ins) ==
    (IF ins.lbl = "" THEN {} ELSE {ins.lbl})
      \cup {ins.cases[k].label : k \in 1 .. Len(ins.cases)}

Successors(b, i) ==
    {PlaceOf(b, LabelPos(b, l)) : l \in {x \in BranchLabels(b.code[i]) : HasLabel(b, x)}}
      \cup (IF EndsPath(b.code[i].op) THEN {} ELSE {i + 1})

DepthAfter(b, p) == p.depth - b.code[p.at].pops + b.code[p.at].pushes

RECURSIVE Interpret(_, _)
Interpret(b, seen) ==
    LET next == {[at |-> j, depth |-> DepthAfter(b, p)] :
                   p \in {q \in seen : q.at <= Len(b.code)}, j \in 1 .. Len(b.code) + 1}
        more == {n \in next : \E p \in seen :
                    /\ p.at <= Len(b.code) /\ n.at \in Successors(b, p.at)
                    /\ n.depth = DepthAfter(b, p)}
    IN IF more \subseteq seen THEN seen ELSE Interpret(b, seen \cup more)

\* Every (place, depth before the place) that some path from the place `from`
\* reaches when started with the given depth.
Paths(b, from, depth) == Interpret(b, {[at |-> from, depth |-> depth]})

MaxOf(S) == CHOOSE m \in S : \A x \in S : x <= m

\* The depths after the last instruction of the sequence, over all paths that
\* execute it.
FinalDepths(b) ==
    {DepthAfter(b, p) : p \in {q \in Paths(b, 1, 0) : q.at = Len(b.code)}}

\* The depths that occur on some path, before or after an instruction.
ObservedDepths(b) ==
    {p.depth : p \in Paths(b, 1, 0)}
      \cup {DepthAfter(b, p) : p \in {q \in Paths(b, 1, 0) : q.at <= Len(b.code)}}

\* C3: for every method produced, the depth at which the builder's running
\* computation ends is the depth the idealized interpreter computes after the
\* last instruction of the emitted sequence.
C3_TrackerEndsAtInterpretedDepth ==
    gen_out.status = "built" =>
        \A d \in FinalDepths(gen.c.b) : gen.c.b.current_stack = d

\* C4: the max_stack recorded for every produced method equals the maximum
\* operand-stack depth observed on any execution path of the emitted code.
C4_MaxStackExact ==
    gen_out.status = "built" =>
        gen_out.attr[1].max_stack = MaxOf(ObservedDepths(gen.c.b) \cup {0})

\* The slots of a value of the returned type: none for void.
SlotSize(t) == IF t = "V" THEN 0 ELSE TypeSize(t)

\* The net changes of the depth over the code of the last compiled expression,
\* on every path from its first instruction to its end.
NetChanges ==
    {p.depth : p \in {q \in Paths(gen_last.c.b, gen_last.from, 0) :
                         q.at = Len(gen_last.c.b.code) + 1}}

\* C5: compiling an expression changes the stack depth by the slot size of the
\* returned type (by zero for void), both as the builder tracks the depth and
\* as the interpreter computes it over the expression's code.
C5_ExpressionLeavesOneValue ==
    (gen_last.seen /\ gen_last.c.error = "") =>
        /\ gen_last.c.b.current_stack - gen_last.before = SlotSize(gen_last.c.type)
        /\ \A d \in NetChanges : d = SlotSize(gen_last.c.type)

\* ------------------------------------------------------ compile-pass claims
\* C13: when a type begins to compile, every class whose bytes the generator
\* has produced earlier in the pass, top-level or nested, has since been
\* stored in the class cache.
C13_CachedBeforeLaterType ==
    \A i \in DOMAIN gp.log :
        gp.log[i].kind = "begin" =>
            \A j \in 1 .. (i - 1) :
                gp.log[j].kind = "emit" =>
                    \E k \in (j + 1) .. (i - 1) :
                        gp.log[k] = Event("cache", gp.log[j].name)

\* A nested type began to compile after a sibling interface and a sibling
\* class with a nested class of its own had been emitted.
C13_Witness ==
    \E i \in DOMAIN gp.log :
        /\ gp.log[i].kind = "begin"
        /\ \E j \in 1 .. (i - 1) : gp.log[j] = Event("emit", "Outer$Mid$J")
        /\ \E j \in 1 .. (i - 1) : gp.log[j] = Event("emit", "Outer$Mid")

\* C14: when compile_class goes on with the members of a class after its
\* nested types were compiled, the class name, class file with its constant
\* pool, superclass name, local-method and local-field tables and initializer
\* sequences of the generator are those it had before the first nested type.
C14_OuterContextRestored ==
    (gp.stack # <<>> /\ Top.pc = "members") => Saved(gp.g) = Top.saved

\* The class Mid, nested in Outer, goes on after its own nested types In (a
\* class with an initializer block) and J were compiled.
C14_Witness ==
    /\ Len(gp.stack) = 2 /\ Top.pc = "members"
    /\ Len(Top.nested) = 2
    /\ Top.saved._local_fields # <<>>
    /\ gp.stack[1].saved.super_class_name = "Base"

\* The index of the first instruction of a CodeAttribute with the mnemonic op,
\* 0 when there is none.
FirstOp(attr, op) ==
    IF \E i \in DOMAIN attr.code : attr.code[i].op = op
    THEN CHOOSE i \in DOMAIN attr.code :
            /\ attr.code[i].op = op
            /\ \A j \in 1 .. (i - 1) : attr.code[j].op # op
    ELSE 0

\* C19: in every constructor of a non-static nested class that compile_class
\* returns, declared or generated, this$0 is stored before the constructor
\* of the superclass is invoked.
C19_OuterStoredBeforeSuper ==
    \A i \in DOMAIN gp.ret :
        gp.ret[i].inner =>
            \A c \in DOMAIN gp.ret[i].constructors :
                /\ gp.ret[i].constructors[c].status = "built"
                /\ FirstOp(gp.ret[i].constructors[c].attr[1], "putfield") > 0
                /\ FirstOp(gp.ret[i].constructors[c].attr[1], "putfield")
                     < FirstOp(gp.ret[i].constructors[c].attr[1], "invokespecial")

\* ------------------------------------------------------------ break claims
\* C17: an unlabeled break inside a loop or a switch jumps to the end label
\* of the innermost loop or switch that encloses it.
C17_BreakLeavesInnermost ==
    (fl.last.seen /\ fl.last.open # <<>>) =>
        fl.last.target = fl.last.open[Len(fl.last.open)].end_label

\* -------------------------------------------------------------- try claims
\* The code at offset pos stores the exception, runs the finally block, loads
\* the exception again and throws it.
RethrowsAfterFinally(b, marks, pos) ==
    \E i, j \in DOMAIN b.code :
        /\ b.code[i].at = pos /\ b.code[i].op = "astore"
        /\ \E f \in Finallies(marks) :
              /\ f.from = pos + b.code[i].len
              /\ b.code[j].at = f.to
        /\ b.code[j].op = "aload" /\ b.code[j].n = b.code[i].n
        /\ j + 1 \in DOMAIN b.code /\ b.code[j + 1].op = "athrow"

CatchAll(b) ==
    {b.exception_handlers[i] :
        i \in {j \in DOMAIN b.exception_handlers : b.exception_handlers[j].catch_type = 0}}

\* C18: when a try statement with a finally clause has been compiled, the
\* code of the finally block follows the code of the try body and the code of
\* each catch body, and catch-all entries of the exception table that cover
\* the try body and every catch body lead to one handler, which runs the
\* finally block and then rethrows the exception.
C18_FinallyOnEveryExit ==
    (tr.pc = "done" /\ tr.s.finally_block # <<>>) =>
        /\ Cardinality(Bodies(tr.c.marks)) = 1 + Len(tr.s.catches)
        /\ \A m \in Bodies(tr.c.marks) : \E f \in Finallies(tr.c.marks) : f.from = m.to
        /\ \E h \in {e.handler : e \in CatchAll(tr.c.b)} :
              /\ HasLabel(tr.c.b, h)
              /\ RethrowsAfterFinally(tr.c.b, tr.c.marks, LabelPos(tr.c.b, h))
              /\ \A m \in Bodies(tr.c.marks) :
                    \E e \in CatchAll(tr.c.b) :
                        /\ e.handler = h
                        /\ LabelPos(tr.c.b, e.start) <= m.from
                        /\ m.to <= LabelPos(tr.c.b, e.end)

\* A try statement with two catch clauses and a finally clause was compiled.
C18_Witness ==
    /\ tr.pc = "done" /\ tr.c.error = ""
    /\ Len(tr.s.catches) = 2 /\ tr.s.finally_block # <<>>

\* -------------------------------------------------------- condition claims
\* The code is the code of the two operands, each once, followed by at most
\* an instruction that compares the two values and by one conditional branch
\* to the target.
OperandsThenBranch(code, operands, target) ==
    /\ Len(code) > Len(operands)
    /\ SubSeq(code, 1, Len(operands)) = operands
    /\ \A k \in (Len(operands) + 1) .. (Len(code) - 1) : code[k].op \in {"lcmp", "fcmpg", "dcmpg"}
    /\ code[Len(code)].lbl = target
    /\ code[Len(code)].op # "goto"

\* C20: a comparison compiled as a condition evaluates each operand once and
\* emits one conditional branch to the target label, with no boolean value
\* computed on the way, whatever the types of the operands.
C20_SingleBranchPerComparison ==
    (cond.pc # "start" /\ cond.c.error = "") =>
        OperandsThenBranch(cond.c.b.code,
                           Operands(Counted(MethodStart("V"), 1), cond.e).c.b.code,
                           cond.target)

\* ---------------------------------------------------- short-circuit claims
\* The value of a condition over boolean locals; env gives the value of the
\* local in each slot.
RECURSIVE Value(_, _, _)
Value(e, c, env) ==
    IF e.k = "id" THEN env[get_local(c, e.name).slot]
    ELSE IF e.k = "unary" THEN ~Value(e.kids[1], c, env)
    ELSE IF e.op = "&&" THEN Value(e.kids[1], c, env) /\ Value(e.kids[2], c, env)
    ELSE Value(e.kids[1], c, env) \/ Value(e.kids[2], c, env)

\* The slots of the operands that Java evaluates, in order: the right operand
\* of && only after a true left operand, of || only after a false one.
RECURSIVE Evaluated(_, _, _)
Evaluated(e, c, env) ==
    IF e.k = "id" THEN <<get_local(c, e.name).slot>>
    ELSE IF e.k = "unary" THEN Evaluated(e.kids[1], c, env)
    ELSE IF Value(e.kids[1], c, env) = (e.op = "&&")
      THEN Evaluated(e.kids[1], c, env) \o Evaluated(e.kids[2], c, env)
    ELSE Evaluated(e.kids[1], c, env)

\* C21: run on any values of its operands, the code of a condition built
\* from &&, || and ! jumps to the target label exactly when the value of the
\* condition is the requested polarity, and it evaluates the operands that
\* short-circuit evaluation reaches, each once and in order.
C21_ShortCircuitBranches ==
    cond.run.status \in {"jumped", "fell"} =>
        /\ (cond.run.status = "jumped") = (Value(cond.e, cond.c, cond.env) = cond.jump_if_true)
        /\ cond.run.loaded = Evaluated(cond.e, cond.c, cond.env)

\* A run of p && (q || r) with p false ended without evaluating q and r, and
\* one of (p || q) && r jumped after skipping q.
C21_Witness ==
    /\ cond.run.status \in {"jumped", "fell"}
    /\ cond.e.k = "bin" /\ cond.e.kids[2].k = "bin"
    /\ Len(cond.run.loaded) = 1

\* ------------------------------------------------------------ call claims
\* The class and the method that the method reference at index idx names
RefOwner(pool, idx) == EntryAt(pool, EntryAt(pool, EntryAt(pool, idx).a).a).s

RefName(pool, idx) == EntryAt(pool, EntryAt(pool, EntryAt(pool, idx).b).a).s

\* The methods a class declares: those of the class being compiled, or those
\* of the class file on the classpath.
MethodsOf(g, owner) ==
    IF owner = g.class_name THEN g.local_methods
    ELSE (CHOOSE cls \in g.classpath : cls.name = owner).methods

DeclaredStatic(g, owner, name) ==
    \E i \in DOMAIN MethodsOf(g, owner) :
        MethodsOf(g, owner)[i].name = name /\ MethodsOf(g, owner)[i].is_static

OwnerIsInterface(g, owner) ==
    \E cls \in g.classpath : cls.name = owner /\ cls.is_interface

\* The rule for the instruction ins of a call with the target named: static
\* methods by invokestatic, calls on super by invokespecial, invokeinterface
\* exactly for an owner that is an interface, and invokevirtual for the rest.
InvokeRule(g, target, ins, owner, name) ==
    /\ DeclaredStatic(g, owner, name) => ins.op = "invokestatic"
    /\ (target = "super" /\ ~DeclaredStatic(g, owner, name)) => ins.op = "invokespecial"
    /\ (ins.op = "invokeinterface") = OwnerIsInterface(g, owner)
    /\ (~DeclaredStatic(g, owner, name) /\ target # "super" /\ ~OwnerIsInterface(g, owner))
          => ins.op = "invokevirtual"

\* C22: the instruction of a compiled method call is invokestatic for a
\* static method, invokespecial for a call on super, invokeinterface exactly
\* when the owner in its method reference is an interface, and invokevirtual
\* otherwise.
C22_InvokeKindFollowsMethod ==
    (gen_last.seen /\ gen_last.c.error = "") =>
        InvokeRule(gen_last.c.g, gen_last.e.op,
                   gen_last.c.b.code[Len(gen_last.c.b.code)],
                   RefOwner(gen_last.c.b.cp, gen_last.c.b.code[Len(gen_last.c.b.code)].n),
                   RefName(gen_last.c.b.cp, gen_last.c.b.code[Len(gen_last.c.b.code)].n))

\* ------------------------------------------------- enhanced-for claims
\* C23: the synthetic locals of an enhanced for loop are released with the
\* loop: once the loop has been compiled without error, the method's next free
\* slot is what it was before the loop.
C23_ForEachSlotsReleased ==
    (gen_last.seen /\ gen_last.c.error = "")
        => gen_last.c.next_slot = gen_last.next_slot

\* ------------------------------------------------- switch alignment claims
\* The forward reference of a switch instruction's default-offset word
DefaultRef(b, ins) ==
    CHOOSE i \in 1 .. Len(b.forward_refs) :
        /\ b.forward_refs[i].instr_start = ins.at
        /\ b.forward_refs[i].size = 4
        /\ \A j \in 1 .. i - 1 : b.forward_refs[j].instr_start # ins.at

SwitchAligned(b, ins, default) ==
    /\ default.label = ins.lbl
    /\ default.offset - (ins.at + 1) \in 0 .. 3
    /\ default.offset % 4 = 0
    /\ ins.len = 1 + (default.offset - (ins.at + 1)) + 8 + 8 * Len(ins.cases)

\* C24: wherever a switch instruction is emitted, 0 to 3 padding bytes follow
\* its opcode, and the default-offset word after them starts at a multiple of
\* 4 from the start of the method's code.
C24_SwitchPaddingAligns ==
    \A k \in 1 .. Len(bb.code) :
        bb.code[k].op = "lookupswitch"
            => SwitchAligned(bb, bb.code[k], bb.forward_refs[DefaultRef(bb, bb.code[k])])

\* A switch whose opcode is not at offset 3 modulo 4, so that padding is needed
C24_Witness ==
    \E k \in 1 .. Len(bb.code) :
        /\ bb.code[k].op = "lookupswitch"
        /\ bb.code[k].at % 4 = 1
        /\ bb.forward_refs[DefaultRef(bb, bb.code[k])].offset = bb.code[k].at + 3

\* ------------------------------------------------- serialization claims
\* The constant-pool indexes written in a list of fields or methods
MemberIndexes(items) ==
    UNION {{items[i].name_idx, items[i].desc_idx}
             \cup {items[i].attributes[j].name_idx : j \in DOMAIN items[i].attributes} :
           i \in DOMAIN items}

AnnotationIndexes(ann) ==
    {ann.type_idx} \cup UNION {{ann.pairs[i].name_idx, ann.pairs[i].const_idx} :
                                i \in DOMAIN ann.pairs}

AttributeIndexes(attrs) ==
    UNION {{attrs[i].name_idx}
             \cup UNION {AnnotationIndexes(attrs[i].annotations[j]) :
                           j \in DOMAIN attrs[i].annotations} :
           i \in DOMAIN attrs}

\* constant_pool_count as ConstantPool.write writes it
WrittenCount(bytes) == 1 + Len(bytes.constant_pool)

\* C25: serialization creates no constant-pool entry once the pool has been
\* written: every index written in the fields, methods and attributes of a
\* class file is below the constant-pool count written in that file.
C25_IndexesBelowWrittenCount ==
    drv_last.seen =>
        /\ drv_last.bytes.entries_after = Len(drv_last.bytes.constant_pool)
        /\ \A i \in MemberIndexes(drv_last.bytes.fields)
                      \cup MemberIndexes(drv_last.bytes.methods)
                      \cup AttributeIndexes(drv_last.bytes.attributes) :
              i < WrittenCount(drv_last.bytes)

\* ------------------------------------------------- finally-on-exit claims
\* C26: in the emitted code, control never leaves a try statement that has a
\* finally clause without the finally block having run, whether it leaves
\* through the end of the statement, a return in the try body or in a catch
\* body, or an exception.
C26_FinallyBeforeLeaving ==
    (tr.run.status = "left" /\ tr.s.finally_block # <<>>) => tr.run.ran_finally

\* ------------------------------------------------- exception-table claims
\* The range of entry j contains the range of entry i and is not the same
StrictlyCovers(b, j, i) ==
    /\ LabelPos(b, b.exception_handlers[j].start) <= LabelPos(b, b.exception_handlers[i].start)
    /\ LabelPos(b, b.exception_handlers[i].end) <= LabelPos(b, b.exception_handlers[j].end)
    /\ \/ LabelPos(b, b.exception_handlers[j].start)
            < LabelPos(b, b.exception_handlers[i].start)
       \/ LabelPos(b, b.exception_handlers[i].end) < LabelPos(b, b.exception_handlers[j].end)

\* Entry i is a typed catch and entry j the catch-all of the same try
TypedAndCatchAll(b, i, j) ==
    /\ b.exception_handlers[i].catch_type # 0
    /\ b.exception_handlers[j].catch_type = 0
    /\ b.exception_handlers[i].start = b.exception_handlers[j].start
    /\ b.exception_handlers[i].end = b.exception_handlers[j].end

\* C27: in the exception table of a compiled method, every entry of an inner
\* try statement comes before every entry of an enclosing try statement whose
\* range covers it, and the typed catch entries of a try come before the
\* catch-all entry of that try.
C27_InnerEntriesFirst ==
    tr.pc = "done" =>
        \A i, j \in DOMAIN tr.c.b.exception_handlers :
            (StrictlyCovers(tr.c.b, j, i) \/ TypedAndCatchAll(tr.c.b, i, j)) => i < j

\* An inner try statement with a catch and a finally clause was compiled
\* inside the body, a catch body and the finally block of an outer one.
C27_Witness ==
    /\ tr.pc = "done"
    /\ Len(tr.s.catches) = 2 /\ tr.s.finally_block # <<>>
    /\ tr.s.finally_block[1][1].k = "try" /\ tr.s.body[1].k = "try"
    /\ \E i, j \in DOMAIN tr.c.b.exception_handlers : StrictlyCovers(tr.c.b, j, i)
    /\ \E i, j \in DOMAIN tr.c.b.exception_handlers : TypedAndCatchAll(tr.c.b, i, j)
    /\ Len(tr.c.b.exception_handlers) > 12

\* ------------------------------------------------- enum claims
RefDescriptor(pool, idx) == EntryAt(pool, EntryAt(pool, EntryAt(pool, idx).b).b).s

\* The field references in a pool, each with owner, name and descriptor
FieldRefs(pool) ==
    {[owner |-> RefOwner(pool, i), name |-> RefName(pool, i),
      descriptor |-> RefDescriptor(pool, i)] :
        i \in {j \in 1 .. PoolLen(pool) - 1 : EntryAt(pool, j).tag = TagFieldref}}

DeclaredFields(class_file) ==
    {[owner |-> class_file.name, name |-> class_file.fields[i].name,
      descriptor |-> class_file.fields[i].descriptor] : i \in DOMAIN class_file.fields}

\* C28: every field reference emitted by an enum's generated constructor,
\* static initializer, values and valueOf methods names a field declared in
\* that enum's class file, with the same owner and the same descriptor,
\* wherever the enum is declared.
C28_EnumFieldRefsDeclared ==
    FieldRefs(drv.g.class_file.cp) \subseteq DeclaredFields(drv.g.class_file)

\* ------------------------------------------------- bridge-method claims
\* C29: no class file holds two methods with the same name and the same
\* descriptor, the bridge methods included.
C29_NoDuplicateMethods ==
    \A i, j \in DOMAIN gen.class_file.methods :
        (/\ gen.class_file.methods[i].name = gen.class_file.methods[j].name
         /\ gen.class_file.methods[i].descriptor = gen.class_file.methods[j].descriptor)
            => i = j

\* ------------------------------------------------- type-parameter claims
\* What compile_method consults: _type_params and current_class_type_params
TypeContext(g) ==
    [_type_params |-> g._type_params,
     current_class_type_params |-> g.current_class_type_params]

\* C30: after a nested type has been compiled, the type-parameter context
\* that the methods of the outer class are compiled with is what it was just
\* before the nested type was compiled.
C30_TypeContextRestored ==
    drv_last.seen => TypeContext(drv_last.after) = TypeContext(drv_last.before)

\* ------------------------------------------------- compilation-order claims
\* The type that the simple name of a supertype denotes in a file: the type
\* of a single-type import with that name, else the type of the same package.
Denoted(f, simple) ==
    IF \E i \in DOMAIN f.imports : ~f.imports[i].is_wildcard /\ f.imports[i].simple = simple
    THEN {FullName(f.imports[i].package, simple) :
            i \in {j \in DOMAIN f.imports :
                     ~f.imports[j].is_wildcard /\ f.imports[j].simple = simple}}
    ELSE {FullName(f.package, simple)}

\* The file f imports, extends or implements a type that the file g declares.
DependsOn(f, g) ==
    /\ f.path # g.path
    /\ \E t \in DOMAIN g.types :
          \/ \E i \in DOMAIN f.imports :
                /\ ~f.imports[i].is_wildcard
                /\ FullName(f.imports[i].package, f.imports[i].simple)
                     = FullName(g.package, g.types[t].name)
          \/ \E i \in DOMAIN f.types :
                \E k \in DOMAIN (f.types[i].extends \o f.types[i].implements) :
                    FullName(g.package, g.types[t].name)
                      \in Denoted(f, (f.types[i].extends \o f.types[i].implements)[k])

\* C16: a file is compiled after every input file that declares a type it
\* imports, extends or implements (the dependencies among the input files
\* here have no cycle).
C16_DependenciesCompiledFirst ==
    \A i \in DOMAIN srt.compiled :
        \A j \in DOMAIN srt.files :
            DependsOn(CHOOSE f \in SortFiles : f.path = srt.compiled[i], srt.files[j]) =>
                \E k \in 1 .. (i - 1) : srt.compiled[k] = srt.files[j].path

\* ------------------------------------------------------- class-file claims
MemberNames(members) ==
    [i \in DOMAIN members |-> [name |-> members[i].name, descriptor |-> members[i].descriptor]]

\* The class info read from a class file agrees with the name the generator
\* returned the class under and with the ClassFile it was serialized from.
ReadsBackAs(class, info) ==
    /\ info.error = ""
    /\ info.name = class.name
    /\ info.super_class = class.cf.super_class
    /\ info.interfaces = class.cf.interfaces
    /\ info.fields = MemberNames(class.cf.fields)
    /\ info.methods = MemberNames(class.cf.methods)

\* C2: every class that compile returns parses back through the class reader
\* without error, and the class read back has the name the generator returned
\* it under and the superclass, interfaces and member names and descriptors
\* of the class file the generator built.
C2_ReadsBackAsIntended ==
    \A i \in DOMAIN drv_last.returned :
        ReadsBackAs(drv_last.returned[i], read(drv_last.returned[i].bytes))

\* A method of the class file carries a Code attribute.
HasCode(bytes) == \E i \in DOMAIN bytes.methods : bytes.methods[i].attributes # <<>>

\* C12: a class file that compile returns has major version 52 exactly when
\* it is an interface one of whose methods has a body, and 50 otherwise (a
\* class, an interface of abstract methods only).
C12_VersionSelection ==
    \A i \in DOMAIN drv_last.returned :
        drv_last.returned[i].bytes.major =
            IF drv_last.returned[i].cf.is_interface /\ HasCode(drv_last.returned[i].bytes)
            THEN JAVA_8 ELSE JAVA_6

\* An interface with a default method was returned next to a class with code.
C12_Witness ==
    /\ \E i \in DOMAIN drv_last.returned :
          /\ drv_last.returned[i].cf.is_interface
          /\ HasCode(drv_last.returned[i].bytes)
          /\ drv_last.returned[i].bytes.major = JAVA_8
    /\ \E i \in DOMAIN drv_last.returned :
          /\ ~drv_last.returned[i].cf.is_interface
          /\ HasCode(drv_last.returned[i].bytes)

\* ----------------------------------------------------------- driver claims
\* C15: when an invocation of the driver has ended, with the summary, with
\* exit status 1 or with an uncaught exception, no archive that the
\* class-path resolver opened is still open.
C15_ArchivesClosedAtEnd ==
    drv.status \in {"done", "exit", "crash"} => drv.zip_files = <<>>

\* C6: when compile raises an error, the generator returns no bytes and the
\* driver writes no class file: the files on disk are those that were there
\* before, and the driver exits.
C6_NoBytesOnError ==
    (drv_last.seen /\ drv_last.error # "") =>
        /\ drv_last.returned = <<>>
        /\ drv_last.wrote = <<>>
        /\ drv.disk = drv_last.before
        /\ drv.status = "exit"

\* An error was raised after to_bytes had produced the bytes of a class of
\* the same file, and after an earlier file had been written.
C6_Witness ==
    /\ drv_last.seen /\ drv_last.error # ""
    /\ drv_last.produced # <<>>
    /\ drv.disk # {}

====
